---- MODULE Spec2Model ----
(***************************************************************************)
(* gergle: the crawl loop, the follower chain and the fetchers.            *)
(*                                                                         *)
(* Two generations of crawl are modelled side by side:                     *)
(*   variant "inline" : crawl(fetcher, initUrl, out, follower); every task *)
(*                      goroutine asks the follower itself and sends on    *)
(*                      pending; crawl ends with close(pending).           *)
(*   variant "links"  : crawl(client, initUrl, out, follower, delay); task *)
(*                      goroutines hand links to one filter goroutine over *)
(*                      the links channel; crawl ends with close(links),   *)
(*                      close(out).  In Spec it runs with delay = 0, so    *)
(*                      ticker is nil; TickSpec runs it with a delay.      *)
(* CycleSpec runs both on a site whose pages link back to each other.      *)
(* FetchSpec applies ErrorPage, the fetchers and the parser to one input,  *)
(* and then hands the page's links to the chain as crawl does.             *)
(* FollowSpec calls one UnanimousFollower on link after link.              *)
(* SanitizeSpec rewrites a URL string and applies sanitizeURL to it.       *)
(* RobotsSpec builds a RegexpDisallowFollower from rules and asks it.      *)
(* RateSpec lets concurrent callers of one RateLimitedFetcher meet the     *)
(* ticks of its ticker.                                                    *)
(* MainSpec runs the command's RunE on flags, arguments and the server's   *)
(* answer for robots.txt.                                                  *)
(* PoolSpec is the third generation of crawl, with numWorkers workers      *)
(* ranging over pending and the filter goroutine owning the seen map.      *)
(* LockSpec runs concurrent UnseenFollower.Follow calls step by step over  *)
(* the RWMutex that guards the seen map.                                   *)
(* Strings are sequences of one-character strings.                         *)
(***************************************************************************)
EXTENDS Integers, Sequences, FiniteSets, TLC

\* ----------------------------------------------------------------- bounds
\* Channel capacities, scaled down from make(chan Task, 100),
\* make(chan *Link, 100) and make(chan Page, 10) so that senders do block.
PendingCap == 1
LinksCap == 1
OutCap == 1
\* Depths of the tasks handed to the fetchers in FetchSpec.
MaxFetchDepth == 1

\* ------------------------------------------------------------- strings
RECURSIVE TrimRight(_, _)
TrimRight(s, c) ==
    IF Len(s) > 0 /\ s[Len(s)] = c THEN TrimRight(SubSeq(s, 1, Len(s) - 1), c) ELSE s

\* strings.Index(us, c): first position of c, counted from 1; 0 when absent.
Index(s, c) ==
    IF \E k \in 1..Len(s) : s[k] = c
    THEN CHOOSE k \in 1..Len(s) : s[k] = c /\ \A j \in 1..(k - 1) : s[j] # c
    ELSE 0

\* The part of a URL string before its fragment.
StripFragment(u) == IF Index(u, "#") = 0 THEN u ELSE SubSeq(u, 1, Index(u, "#") - 1)

\* Mutation: strings.TrimSuffix, one trailing slash only.
sanitizeURLOnce(u) ==
    LET us == StripFragment(u)
    IN IF Len(us) > 0 /\ us[Len(us)] = "/" THEN SubSeq(us, 1, Len(us) - 1) ELSE us

sanitizeURL(u) ==
    LET f == Index(u, "#")
        us == IF f # 0 THEN SubSeq(u, 1, f - 1) ELSE u
    IN TrimRight(us, "/")

\* ---------------------------------------------------------- domain model
Task(url, depth) == [URL |-> url, Depth |-> depth]

LinkTask(link) == Task(link.URL, link.Depth)

Link(type, url, external, depth) ==
    [Type |-> type, URL |-> url, External |-> external, Depth |-> depth]

\* Mutation: the error page is marked as processed.
ErrorPageProcessed(pageURL, depth, err) ==
    [URL |-> pageURL, Processed |-> TRUE, Depth |-> depth,
     Links |-> <<>>, Assets |-> <<>>, Error |-> <<err>>]

\* Page.Error is a *error: <<>> is the nil pointer, <<e>> points at e.
ErrorPage(pageURL, depth, err) ==
    [URL |-> pageURL, Processed |-> FALSE, Depth |-> depth,
     Links |-> <<>>, Assets |-> <<>>, Error |-> <<err>>]

NoPage == [URL |-> <<>>, Processed |-> FALSE, Depth |-> 0,
           Links |-> <<>>, Assets |-> <<>>, Error |-> <<>>]

\* ------------------------------------------------------------- the site
SeedURL == <<"s", "/">>
UrlA == <<"a">>
UrlB == <<"b">>
UrlX == <<"x">>
UrlImg == <<"i">>

\* A second site: http://a/ -> http://a/b, http://x/ (another host); b -> .
UrlHttpA == << "h", "t", "t", "p", ":", "/", "/", "a", "/" >>
UrlHttpAB == << "h", "t", "t", "p", ":", "/", "/", "a", "/", "b" >>
UrlHttpX == << "h", "t", "t", "p", ":", "/", "/", "x", "/" >>

\* The pages the site serves: s -> a, b, x (another host); a -> b; b -> .
SitePage(u) ==
    IF u = SeedURL THEN
        [URL |-> SeedURL, Processed |-> TRUE, Depth |-> 0,
         Links |-> << Link("anchor", UrlA, FALSE, 1),
                      Link("anchor", UrlB, FALSE, 1),
                      Link("anchor", UrlX, TRUE, 1) >>,
         Assets |-> << Link("img", UrlImg, FALSE, 1) >>, Error |-> <<>>]
    ELSE IF u = UrlHttpA THEN
        [URL |-> UrlHttpA, Processed |-> TRUE, Depth |-> 0,
         Links |-> << Link("anchor", UrlHttpAB, FALSE, 1),
                      Link("anchor", UrlHttpX, TRUE, 1) >>,
         Assets |-> <<>>, Error |-> <<>>]
    ELSE IF u = UrlA THEN
        [URL |-> UrlA, Processed |-> TRUE, Depth |-> 1,
         Links |-> << Link("anchor", UrlB, FALSE, 2) >>,
         Assets |-> <<>>, Error |-> <<>>]
    ELSE
        [URL |-> u, Processed |-> TRUE, Depth |-> 1,
         Links |-> <<>>, Assets |-> <<>>, Error |-> <<>>]

SiteURLs == {SeedURL, UrlA, UrlB}
AllURLs == {SeedURL, UrlA, UrlB, UrlX, UrlImg, UrlHttpA, UrlHttpAB, UrlHttpX}

\* NewMockFetcher(pages...): the registered pages keyed by URL string.
NewMockFetcher(registered) == [u \in registered |-> SitePage(u)]

\* The sets of URLs the fetcher may fail on (not registered / not served).
FailingSets == {{}, {UrlA}, {UrlB}}

\* The crawls tried: a seed and the pages registered with the MockFetcher.
Sites ==
    {[initUrl |-> SeedURL, registered |-> SiteURLs \ failing] : failing \in FailingSets}
        \cup {[initUrl |-> UrlHttpA, registered |-> {UrlHttpA, UrlHttpAB}]}

\* Mutation: whatever is registered first is returned for any URL.
MockFetchAny(m, task) ==
    IF DOMAIN m # {} THEN m[CHOOSE u \in DOMAIN m : TRUE]
    ELSE ErrorPage(task.URL, task.Depth, "Page not found")

MockFetch(m, task) ==
    IF task.URL \in DOMAIN m THEN m[task.URL]
    ELSE ErrorPage(task.URL, task.Depth, "Page not found")


\* ------------------------------------------------- parser and fetchers
\* URLs as url.URL values; Scheme = "" and Host = "" make a relative reference.
URL(scheme, host, path) == [Scheme |-> scheme, Host |-> host, Path |-> path]

\* url.URL.ResolveReference
ResolveReference(base, ref) ==
    IF ref.Scheme # "" THEN ref
    ELSE IF ref.Host # "" THEN URL(base.Scheme, ref.Host, ref.Path)
    ELSE URL(base.Scheme, base.Host, IF ref.Path # "" THEN ref.Path ELSE base.Path)

\* An href as found in a body: ok says whether url.Parse accepts it.
Href(ok, u) == [ok |-> ok, url |-> u]

\* AssetLink(assetType, href, base, depth): <<>> stands for (nil, err).
AssetLink(assetType, href, base, depth) ==
    IF ~href.ok THEN <<>>
    ELSE LET abs == ResolveReference(base, href.url)
         IN << Link(assetType, abs,
                    abs.Scheme # base.Scheme \/ abs.Host # base.Host, depth) >>

AnchorLink(href, base, depth) == AssetLink("anchor", href, base, depth)

\* strings.ToLower, on the letters of the content types used here.
ToLowerChar(c) ==
    CASE c = "T" -> "t" [] c = "E" -> "e" [] c = "X" -> "x"
      [] c = "H" -> "h" [] OTHER -> c

ToLower(str) == [k \in 1..Len(str) |-> ToLowerChar(str[k])]

\* strings.Split(str, sep)[0]
SplitFirst(str, sep) ==
    IF Index(str, sep) = 0 THEN str ELSE SubSeq(str, 1, Index(str, sep) - 1)

\* RegexPageParser.parseBase
parseBase(resp) ==
    IF resp.body.base # <<>> /\ resp.body.base[1].ok
    THEN ResolveReference(resp.reqURL, resp.body.base[1].url)
    ELSE resp.reqURL

\* RegexPageParser.parseLinks: hrefs that do not parse are skipped.
RECURSIVE parseLinks(_, _, _)
parseLinks(base, anchors, depth) ==
    IF anchors = <<>> THEN <<>>
    ELSE AnchorLink(Head(anchors), base, depth) \o parseLinks(base, Tail(anchors), depth)

\* RegexPageParser.parseAssets: each entry is <<tag, src>>.
RECURSIVE parseAssets(_, _, _)
parseAssets(base, assets, depth) ==
    IF assets = <<>> THEN <<>>
    ELSE AssetLink(Head(assets)[1], Head(assets)[2], base, depth)
            \o parseAssets(base, Tail(assets), depth)

\* RegexPageParser.Parse; depth arithmetic is uint16.
Parse(task, resp) ==
    IF resp.status # 200
    THEN ErrorPage(task.URL, task.Depth, "Non-200 response")
    ELSE IF SplitFirst(ToLower(resp.mime), "/") # <<"t", "e", "x", "t">>
    THEN ErrorPage(task.URL, task.Depth, "'Content-Type' is not text/*")
    ELSE IF resp.readErr # "nil"
    THEN ErrorPage(task.URL, task.Depth, resp.readErr)
    ELSE [URL |-> task.URL, Processed |-> TRUE, Depth |-> task.Depth,
          Links |-> parseLinks(parseBase(resp), resp.body.anchors, (task.Depth + 1) % 65536),
          Assets |-> parseAssets(parseBase(resp), resp.body.assets, (task.Depth + 1) % 65536),
          Error |-> <<>>]

\* Mutation: the response is handed to the parser whatever Client.Do returned.
HTTPFetchAlwaysParse(task, getErr, resp) == Parse(task, resp)

\* HTTPFetcher.Fetch: getErr is the error of Client.Do, "nil" for none.
HTTPFetch(task, getErr, resp) ==
    IF getErr # "nil" THEN ErrorPage(task.URL, task.Depth, getErr)
    ELSE Parse(task, resp)

\* ------------------------------------------------------------ followers
\* Mutation: external links are let through.
LocalFollowAll(link) == "nil"

LocalFollow(link) == IF link.External THEN "Not internal link" ELSE "nil"

hasSeen(seenMap, href) == href \in seenMap

recordSeen(seenMap, href) == seenMap \cup {href}

NewUnseenFollower(urls) == {sanitizeURL(u) : u \in urls}

\* A follower value names its type and carries its fields; the seen map of
\* an UnseenFollower is kept beside it because Follow changes it.
LocalFollower == [kind |-> "Local"]

ShallowFollower(m) == [kind |-> "Shallow", MaxDepth |-> m]

UnseenFollower == [kind |-> "Unseen"]

\* Mutation: the depth bound itself is refused.
ShallowFollowStrict(s, link) ==
    IF link.Depth >= s.MaxDepth
    THEN "Link beyond depth " \o ToString(s.MaxDepth) ELSE "nil"

ShallowFollow(s, link) ==
    IF link.Depth > s.MaxDepth
    THEN "Link beyond depth " \o ToString(s.MaxDepth) ELSE "nil"

\* Mutation: the link is refused but its canonical form is not looked up.
UnseenFollowRaw(seenMap, link) ==
    IF hasSeen(seenMap, link.URL)
    THEN [err |-> "Not following seen link", seen |-> seenMap]
    ELSE [err |-> "nil", seen |-> recordSeen(seenMap, sanitizeURL(link.URL))]

\* UnseenFollower.Follow, called with no other call in progress.
UnseenFollow(seenMap, link) ==
    IF hasSeen(seenMap, sanitizeURL(link.URL))
    THEN [err |-> "Not following seen link", seen |-> seenMap]
    ELSE [err |-> "nil", seen |-> recordSeen(seenMap, sanitizeURL(link.URL))]

\* follower.Follow(link) through the Follower interface.
Follow(f, seenMap, link) ==
    CASE f.kind = "Local" -> [err |-> LocalFollow(link), seen |-> seenMap]
      [] f.kind = "Shallow" -> [err |-> ShallowFollow(f, link), seen |-> seenMap]
      [] f.kind = "Unseen" -> UnseenFollow(seenMap, link)

\* Mutation: every member is asked and the last verdict is returned.
RECURSIVE UnanimousFollowLast(_, _, _)
UnanimousFollowLast(all, seenMap, link) ==
    IF all = <<>> THEN [err |-> "nil", seen |-> seenMap]
    ELSE LET r == Follow(Head(all), seenMap, link)
         IN IF Len(all) = 1 THEN r ELSE UnanimousFollowLast(Tail(all), r.seen, link)

\* UnanimousFollower.Follow: the members in slice order, up to the first error.
RECURSIVE UnanimousFollow(_, _, _)
UnanimousFollow(all, seenMap, link) ==
    IF all = <<>> THEN [err |-> "nil", seen |-> seenMap]
    ELSE LET r == Follow(Head(all), seenMap, link)
         IN IF r.err # "nil" THEN r ELSE UnanimousFollow(Tail(all), r.seen, link)

\* ------------------------------------------- robots.txt disallow rules
\* strings.TrimLeft(s, c)
RECURSIVE TrimLeft(_, _)
TrimLeft(s, c) == IF Len(s) > 0 /\ s[1] = c THEN TrimLeft(Tail(s), c) ELSE s

\* The characters regexp.QuoteMeta escapes.
MetaChars == {"\\", ".", "+", "*", "?", "(", ")", "|", "[", "]", "{", "}", "^", "$"}

\* regexp.QuoteMeta(s)
RECURSIVE QuoteMeta(_)
QuoteMeta(s) ==
    IF s = <<>> THEN <<>>
    ELSE (IF Head(s) \in MetaChars THEN << "\\", Head(s) >> ELSE << Head(s) >>)
            \o QuoteMeta(Tail(s))

\* strings.Replace(s, "\\*", "*", -1): every backslash-star becomes a star.
RECURSIVE ReplaceQuotedStar(_)
ReplaceQuotedStar(s) ==
    IF s = <<>> THEN <<>>
    ELSE IF Len(s) >= 2 /\ s[1] = "\\" /\ s[2] = "*"
    THEN << "*" >> \o ReplaceQuotedStar(SubSeq(s, 3, Len(s)))
    ELSE << Head(s) >> \o ReplaceQuotedStar(Tail(s))

\* The expression handed to regexp.Compile for one rule.
RuleExpr(rule) ==
    << "^", "/", "?" >> \o ReplaceQuotedStar(QuoteMeta(TrimLeft(rule, "/")))

\* The syntax of these expressions: atoms are an escaped character, '.' or
\* a plain character, each with an optional '?' or '*'.  A repetition
\* operator with no atom before it is a syntax error (missing argument,
\* invalid nested repetition operator); <<>> stands for that error.
RECURSIVE parseAtoms(_)
parseAtoms(e) ==
    IF e = <<>> THEN << <<>> >>
    ELSE IF Head(e) \in {"*", "?", "+"} THEN <<>>
    ELSE IF Head(e) = "\\" /\ Len(e) = 1 THEN <<>>
    ELSE LET n == IF Head(e) = "\\" THEN 2 ELSE 1
             rest == SubSeq(e, n + 1, Len(e))
             rep == IF rest # <<>> /\ Head(rest) \in {"*", "?"} THEN Head(rest) ELSE "1"
             tail == parseAtoms(IF rep = "1" THEN rest ELSE Tail(rest))
             atom == [ch |-> e[n], any |-> (Head(e) = "."), rep |-> rep]
         IN IF tail = <<>> THEN <<>> ELSE << << atom >> \o tail[1] >>

\* regexp.Compile(expr): <<>> for (nil, err), <<re>> for a *Regexp.
Compile(expr) ==
    LET prog == parseAtoms(Tail(expr))
    IN IF prog = <<>> THEN <<>> ELSE << [src |-> expr, prog |-> prog[1]] >>

\* Whether a prefix of str matches the atoms, from the start of str.
RECURSIVE matchHere(_, _)
matchHere(prog, str) ==
    IF prog = <<>> THEN TRUE
    ELSE LET a == Head(prog)
             one == str # <<>> /\ (a.any \/ Head(str) = a.ch)
         IN CASE a.rep = "1" -> one /\ matchHere(Tail(prog), Tail(str))
              [] a.rep = "?" -> \/ (one /\ matchHere(Tail(prog), Tail(str)))
                                \/ matchHere(Tail(prog), str)
              [] a.rep = "*" -> \/ (one /\ matchHere(prog, Tail(str)))
                                \/ matchHere(Tail(prog), str)

\* (*Regexp).MatchString for an expression that starts with '^'.
MatchString(re, str) == matchHere(re.prog, str)

\* The append loop of NewRobotsDisallowFollower.
RECURSIVE appendRules(_, _)
appendRules(rules, disallowRule) ==
    IF disallowRule = <<>> THEN rules
    ELSE LET regexpRule == Compile(RuleExpr(Head(disallowRule)))
         IN IF regexpRule = <<>> THEN appendRules(rules, Tail(disallowRule))
            ELSE appendRules(Append(rules, regexpRule), Tail(disallowRule))

\* NewRobotsDisallowFollower(disallowRule...): make([]*regexp.Regexp, n) is a
\* slice of n nil pointers (<<>>), and the compiled rules are appended to it.
NewRobotsDisallowFollower(disallowRule) ==
    appendRules([k \in 1..Len(disallowRule) |-> <<>>], disallowRule)

\* RegexpDisallowFollower.Follow; calling MatchString through a nil *Regexp
\* is a nil pointer dereference.
RECURSIVE RegexpDisallowFollow(_, _)
RegexpDisallowFollow(rules, path) ==
    IF rules = <<>> THEN "nil"
    ELSE IF Head(rules) = <<>> THEN "panic: nil pointer dereference"
    ELSE IF MatchString(Head(rules)[1], path) THEN "Link disallowed by rule"
    ELSE RegexpDisallowFollow(Tail(rules), path)

VARIABLES
    variant,        \* which crawl is running
    initUrl,        \* the seed URL given to crawl
    pages,          \* MockFetcher.pages / what the site serves
    unexplored,     \* sync.WaitGroup counter
    pending,        \* chan Task: buffered tasks
    pendingClosed,
    links,          \* chan *Link: buffered links (variant "links")
    linksClosed,
    out,            \* chan Page: buffered pages
    outClosed,
    gs,             \* the task goroutines, in dequeue order
    disp,           \* the dispatcher goroutine ("run" / "exit")
    filter,         \* the link filter goroutine (variant "links")
    seen,           \* UnseenFollower.seen
    crawlPc,        \* the goroutine that called crawl
    consumer,       \* main's range over the output stream
    sent,           \* history: pages sent on out, per URL
    nReceived,      \* history: pages the consumer took
    allowed,        \* history: Follow calls that returned nil, per canonical URL
    emittedBy,      \* history: goroutines whose page has been sent
    asked,          \* history: goroutines whose links the follower was asked about
    enqueuedFrom,   \* history: goroutines with a link turned into a pending task
    closeCount,     \* history: number of close(out) calls
    sendOnClosed,   \* history: the closed channels a send was attempted on (panic)
    fin, fout,      \* FetchSpec: the input and the page produced
    chain,          \* the UnanimousFollower in use
    useen,          \* its UnseenFollower's seen map
    call,           \* the last Follow call: link, seen map before it, error
    priorURLs,      \* history: the URLs of the Follow calls before the last
    ftasks,         \* FetchSpec: the tasks made from the page's links
    san,            \* SanitizeSpec: two URL strings and their canonical forms
    rob,            \* RobotsSpec: the rules, the follower built and its last call
    rl,             \* RateSpec: a RateLimitedFetcher, its ticker and its callers
    cmd,            \* MainSpec: one run of the command
    lock            \* LockSpec: UnseenFollower.lock and the Follow calls in progress

vars == << variant, initUrl, pages, unexplored, pending, pendingClosed, links, linksClosed,
           out, outClosed, gs, disp, filter, seen, crawlPc, consumer, sent,
           nReceived, allowed, emittedBy, asked, enqueuedFrom, closeCount,
           sendOnClosed, fin, fout, chain, useen, call, priorURLs, ftasks, san, rob,
           rl, cmd, lock >>

chanVars == << pending, pendingClosed, links, linksClosed, out, outClosed >>
histVars == << sent, nReceived, allowed, emittedBy, asked, enqueuedFrom,
               closeCount, sendOnClosed >>
fetchVars == << fin, fout, ftasks >>
followVars == << chain, useen, call, priorURLs >>
pureVars == << san, rob >>
cmdVars == << rl, cmd, lock >>

Gids == 1..Len(gs)

NoLink == Link("", <<>>, FALSE, 0)

NoCall == [link |-> NoLink, before |-> {}, err |-> "none"]

NoSan == [u |-> <<>>, uout |-> <<>>, v |-> <<>>, vout |-> <<>>]

NoRob == [phase |-> "idle", disallowRule |-> <<>>, Rules |-> <<>>, path |-> <<>>,
          err |-> "none"]

NoRl == [phase |-> "idle"]

NoCmd == [phase |-> "idle"]

NoLock == [phase |-> "idle"]

\* No rate limited fetcher and no command is running.
CmdIdle ==
    /\ rl = NoRl
    /\ cmd = NoCmd
    /\ lock = NoLock

\* No string function or robots follower is being exercised on its own.
PureIdle ==
    /\ san = NoSan
    /\ rob = NoRob

\* No crawl is running.
NoCrawl ==
    /\ variant = "none"
    /\ initUrl = <<>>
    /\ unexplored = 0
    /\ pending = <<>>
    /\ pendingClosed = FALSE
    /\ links = <<>>
    /\ linksClosed = FALSE
    /\ out = <<>>
    /\ outClosed = FALSE
    /\ gs = <<>>
    /\ disp = "none"
    /\ filter = [pc |-> "none", link |-> NoLink, by |-> 0]
    /\ seen = {}
    /\ crawlPc = "none"
    /\ consumer = "none"
    /\ sent = [u \in AllURLs |-> 0]
    /\ nReceived = 0
    /\ allowed = [h \in {sanitizeURL(u) : u \in AllURLs} |-> 0]
    /\ emittedBy = {}
    /\ asked = {}
    /\ enqueuedFrom = {}
    /\ closeCount = 0
    /\ sendOnClosed = {}

\* No crawl is running and no page is registered with a MockFetcher.
CrawlIdle ==
    /\ NoCrawl
    /\ pages = NewMockFetcher({})

\* No fetcher or parser is being called on its own.
FetchIdle ==
    /\ fin = [kind |-> "idle", phase |-> "idle"]
    /\ fout = NoPage
    /\ ftasks = <<>>

\* No follower is being called on its own.
FollowIdle ==
    /\ chain = <<>>
    /\ useen = {}
    /\ call = NoCall
    /\ priorURLs = {}

\* State right after crawl has seeded the queue and started its goroutines.
InitCrawl(v) ==
    /\ variant = v
    /\ \E site \in Sites :
        /\ initUrl = site.initUrl
        /\ pages = NewMockFetcher(site.registered)
    /\ unexplored = 1
    /\ pending = << Task(initUrl, 0) >>
    /\ pendingClosed = FALSE
    /\ links = <<>>
    /\ linksClosed = FALSE
    /\ out = <<>>
    /\ outClosed = FALSE
    /\ gs = <<>>
    /\ disp = "run"
    /\ filter = [pc |-> IF v = "links" THEN "recv" ELSE "none", link |-> NoLink, by |-> 0]
    /\ seen = NewUnseenFollower({initUrl})
    /\ crawlPc = "wait"
    /\ consumer = "run"
    /\ sent = [u \in AllURLs |-> 0]
    /\ nReceived = 0
    /\ allowed = [h \in {sanitizeURL(u) : u \in AllURLs} |-> 0]
    /\ emittedBy = {}
    /\ asked = {}
    /\ enqueuedFrom = {}
    /\ closeCount = 0
    /\ sendOnClosed = {}
    /\ fin = [kind |-> "idle", phase |-> "idle"]
    /\ fout = NoPage
    /\ ftasks = <<>>
    /\ FollowIdle
    /\ PureIdle
    /\ CmdIdle

Init == InitCrawl("inline") \/ InitCrawl("links")

\* ------------------------------------------------------ the dispatcher
\* for task := range pending { go func(task Task) {...}(task) }
\* Mutation: the loop runs each task itself, so it takes the next task only
\* when the previous task's goroutine has ended.
DispatchSerial ==
    /\ disp = "run"
    /\ Len(pending) > 0
    /\ \A i \in Gids : gs[i].pc = "exit"
    /\ pending' = Tail(pending)
    /\ gs' = Append(gs, [task |-> Head(pending), pc |-> "fetch", page |-> NoPage, i |-> 1])
    /\ UNCHANGED << variant, initUrl, pages, unexplored, pendingClosed, links, linksClosed,
                    out, outClosed, disp, filter, seen, crawlPc, consumer >>
    /\ UNCHANGED histVars /\ UNCHANGED fetchVars /\ UNCHANGED followVars /\ UNCHANGED pureVars /\ UNCHANGED cmdVars

Dispatch ==
    /\ disp = "run"
    /\ Len(pending) > 0
    /\ pending' = Tail(pending)
    /\ gs' = Append(gs, [task |-> Head(pending), pc |-> "fetch", page |-> NoPage, i |-> 1])
    /\ UNCHANGED << variant, initUrl, pages, unexplored, pendingClosed, links, linksClosed,
                    out, outClosed, disp, filter, seen, crawlPc, consumer >>
    /\ UNCHANGED histVars /\ UNCHANGED fetchVars /\ UNCHANGED followVars /\ UNCHANGED pureVars /\ UNCHANGED cmdVars

DispatchExit ==
    /\ disp = "run"
    /\ Len(pending) = 0
    /\ pendingClosed
    /\ disp' = "exit"
    /\ UNCHANGED << variant, initUrl, pages, unexplored, gs, filter, seen, crawlPc, consumer >>
    /\ UNCHANGED chanVars /\ UNCHANGED histVars /\ UNCHANGED fetchVars /\ UNCHANGED followVars /\ UNCHANGED pureVars /\ UNCHANGED cmdVars

\* --------------------------------------------------- the task goroutines
\* Mutation: the loop runs over the assets before the links.
CurLinkAssetsToo(g) == (g.page.Assets \o g.page.Links)[g.i]

CurLink(g) == g.page.Links[g.i]

\* Where the loop over page.Links continues once link number i is reached.
LoopPc(page, i) ==
    IF i <= Len(page.Links)
    THEN (IF variant = "inline" THEN "follow" ELSE "add")
    ELSE "done"

\* Mutation: the page is never sent; the goroutine goes straight to its links.
TaskFetchNoEmit(i) ==
    /\ gs[i].pc = "fetch"
    /\ gs' = [gs EXCEPT ![i].page = MockFetch(pages, gs[i].task),
                        ![i].pc = LoopPc(MockFetch(pages, gs[i].task), 1)]
    /\ UNCHANGED << variant, initUrl, pages, unexplored, disp, filter, seen, crawlPc, consumer >>
    /\ UNCHANGED chanVars /\ UNCHANGED histVars /\ UNCHANGED fetchVars /\ UNCHANGED followVars /\ UNCHANGED pureVars /\ UNCHANGED cmdVars

\* page := fetcher.Fetch(&task)   /   client.Get + parsePage
TaskFetch(i) ==
    /\ gs[i].pc = "fetch"
    /\ gs' = [gs EXCEPT ![i].page = MockFetch(pages, gs[i].task), ![i].pc = "emit"]
    /\ UNCHANGED << variant, initUrl, pages, unexplored, disp, filter, seen, crawlPc, consumer >>
    /\ UNCHANGED chanVars /\ UNCHANGED histVars /\ UNCHANGED fetchVars /\ UNCHANGED followVars /\ UNCHANGED pureVars /\ UNCHANGED cmdVars

\* Mutation: only processed pages are sent (if page.Error == nil { out <- page }).
TaskEmitSkipError(i) ==
    /\ gs[i].pc = "emit"
    /\ outClosed \/ Len(out) < OutCap \/ ~gs[i].page.Processed
    /\ IF ~gs[i].page.Processed
       THEN UNCHANGED << out, sent, emittedBy, sendOnClosed >>
       ELSE IF outClosed
       THEN /\ sendOnClosed' = sendOnClosed \cup {"out"}
            /\ UNCHANGED << out, sent, emittedBy >>
       ELSE /\ out' = Append(out, gs[i].page)
            /\ sent' = [sent EXCEPT ![gs[i].page.URL] = @ + 1]
            /\ emittedBy' = emittedBy \cup {i}
            /\ UNCHANGED sendOnClosed
    /\ gs' = [gs EXCEPT ![i].pc = LoopPc(gs[i].page, 1)]
    /\ UNCHANGED << variant, initUrl, pages, unexplored, pending, pendingClosed, links,
                    linksClosed, outClosed, disp, filter, seen, crawlPc, consumer >>
    /\ UNCHANGED << nReceived, allowed, asked, enqueuedFrom, closeCount >>
    /\ UNCHANGED fetchVars /\ UNCHANGED followVars /\ UNCHANGED pureVars /\ UNCHANGED cmdVars

\* out <- page
TaskEmit(i) ==
    /\ gs[i].pc = "emit"
    /\ outClosed \/ Len(out) < OutCap
    /\ IF outClosed
       THEN /\ sendOnClosed' = sendOnClosed \cup {"out"}
            /\ UNCHANGED << out, sent, emittedBy >>
       ELSE /\ out' = Append(out, gs[i].page)
            /\ sent' = [sent EXCEPT ![gs[i].page.URL] = @ + 1]
            /\ emittedBy' = emittedBy \cup {i}
            /\ UNCHANGED sendOnClosed
    /\ gs' = [gs EXCEPT ![i].pc = LoopPc(gs[i].page, 1)]
    /\ UNCHANGED << variant, initUrl, pages, unexplored, pending, pendingClosed, links,
                    linksClosed, outClosed, disp, filter, seen, crawlPc, consumer >>
    /\ UNCHANGED << nReceived, allowed, asked, enqueuedFrom, closeCount >>
    /\ UNCHANGED fetchVars /\ UNCHANGED followVars /\ UNCHANGED pureVars /\ UNCHANGED cmdVars

\* follower.Follow(link), up to and including UnseenFollower.hasSeen:
\* UnanimousFollower{LocalFollower, UnseenFollower} asks its members in order.
\* Mutation: the chain is the UnseenFollower alone.
FollowDeniedSeenOnly(seenMap, link) ==
    hasSeen(seenMap, sanitizeURL(link.URL))

FollowDenied(seenMap, link) ==
    \/ LocalFollow(link) # "nil"
    \/ hasSeen(seenMap, sanitizeURL(link.URL))

TaskFollow(i) ==
    /\ variant = "inline"
    /\ gs[i].pc = "follow"
    /\ asked' = asked \cup {i}
    /\ gs' = IF FollowDenied(seen, CurLink(gs[i]))
             THEN [gs EXCEPT ![i].i = @ + 1, ![i].pc = LoopPc(gs[i].page, gs[i].i + 1)]
             ELSE [gs EXCEPT ![i].pc = "record"]
    /\ UNCHANGED << variant, initUrl, pages, unexplored, disp, filter, seen, crawlPc, consumer >>
    /\ UNCHANGED chanVars
    /\ UNCHANGED << sent, nReceived, allowed, emittedBy, enqueuedFrom, closeCount, sendOnClosed >>
    /\ UNCHANGED fetchVars /\ UNCHANGED followVars /\ UNCHANGED pureVars /\ UNCHANGED cmdVars

\* UnseenFollower.Follow, second half: u.recordSeen(href); return nil
TaskRecord(i) ==
    /\ variant = "inline"
    /\ gs[i].pc = "record"
    /\ seen' = recordSeen(seen, sanitizeURL(CurLink(gs[i]).URL))
    /\ allowed' = [allowed EXCEPT ![sanitizeURL(CurLink(gs[i]).URL)] = @ + 1]
    /\ gs' = [gs EXCEPT ![i].pc = "add"]
    /\ UNCHANGED << variant, initUrl, pages, unexplored, disp, filter, crawlPc, consumer >>
    /\ UNCHANGED chanVars
    /\ UNCHANGED << sent, nReceived, emittedBy, asked, enqueuedFrom, closeCount, sendOnClosed >>
    /\ UNCHANGED fetchVars /\ UNCHANGED followVars /\ UNCHANGED pureVars /\ UNCHANGED cmdVars

\* Mutation: the link is handed on without unexplored.Add(1).
TaskAddForgotten(i) ==
    /\ gs[i].pc = "add"
    /\ gs' = [gs EXCEPT ![i].pc = IF variant = "inline" THEN "send" ELSE "sendlink"]
    /\ UNCHANGED << variant, initUrl, pages, unexplored, disp, filter, seen, crawlPc, consumer >>
    /\ UNCHANGED chanVars /\ UNCHANGED histVars /\ UNCHANGED fetchVars /\ UNCHANGED followVars /\ UNCHANGED pureVars /\ UNCHANGED cmdVars

\* unexplored.Add(1)
TaskAdd(i) ==
    /\ gs[i].pc = "add"
    /\ unexplored' = unexplored + 1
    /\ gs' = [gs EXCEPT ![i].pc = IF variant = "inline" THEN "send" ELSE "sendlink"]
    /\ UNCHANGED << variant, initUrl, pages, disp, filter, seen, crawlPc, consumer >>
    /\ UNCHANGED chanVars /\ UNCHANGED histVars /\ UNCHANGED fetchVars /\ UNCHANGED followVars /\ UNCHANGED pureVars /\ UNCHANGED cmdVars

\* pending <- LinkTask(link)
TaskSend(i) ==
    /\ variant = "inline"
    /\ gs[i].pc = "send"
    /\ pendingClosed \/ Len(pending) < PendingCap
    /\ IF pendingClosed
       THEN /\ sendOnClosed' = sendOnClosed \cup {"pending"}
            /\ UNCHANGED << pending, enqueuedFrom >>
       ELSE /\ pending' = Append(pending, LinkTask(CurLink(gs[i])))
            /\ enqueuedFrom' = enqueuedFrom \cup {i}
            /\ UNCHANGED sendOnClosed
    /\ gs' = [gs EXCEPT ![i].i = @ + 1, ![i].pc = LoopPc(gs[i].page, gs[i].i + 1)]
    /\ UNCHANGED << variant, initUrl, pages, unexplored, pendingClosed, links, linksClosed,
                    out, outClosed, disp, filter, seen, crawlPc, consumer >>
    /\ UNCHANGED << sent, nReceived, allowed, emittedBy, asked, closeCount >>
    /\ UNCHANGED fetchVars /\ UNCHANGED followVars /\ UNCHANGED pureVars /\ UNCHANGED cmdVars

\* links <- link
TaskSendLink(i) ==
    /\ variant = "links"
    /\ gs[i].pc = "sendlink"
    /\ linksClosed \/ Len(links) < LinksCap
    /\ IF linksClosed
       THEN /\ sendOnClosed' = sendOnClosed \cup {"links"}
            /\ UNCHANGED links
       ELSE /\ links' = Append(links, [link |-> CurLink(gs[i]), by |-> i])
            /\ UNCHANGED sendOnClosed
    /\ gs' = [gs EXCEPT ![i].i = @ + 1, ![i].pc = LoopPc(gs[i].page, gs[i].i + 1)]
    /\ UNCHANGED << variant, initUrl, pages, unexplored, pending, pendingClosed, linksClosed,
                    out, outClosed, disp, filter, seen, crawlPc, consumer >>
    /\ UNCHANGED << sent, nReceived, allowed, emittedBy, asked, enqueuedFrom, closeCount >>
    /\ UNCHANGED fetchVars /\ UNCHANGED followVars /\ UNCHANGED pureVars /\ UNCHANGED cmdVars

\* Mutation: the task goroutine ends without unexplored.Done().
TaskDoneForgotten(i) ==
    /\ gs[i].pc = "done"
    /\ gs' = [gs EXCEPT ![i].pc = "exit"]
    /\ UNCHANGED << variant, initUrl, pages, unexplored, disp, filter, seen, crawlPc, consumer >>
    /\ UNCHANGED chanVars /\ UNCHANGED histVars /\ UNCHANGED fetchVars /\ UNCHANGED followVars /\ UNCHANGED pureVars /\ UNCHANGED cmdVars

\* unexplored.Done() at the end of the task goroutine
TaskDone(i) ==
    /\ gs[i].pc = "done"
    /\ unexplored' = unexplored - 1
    /\ gs' = [gs EXCEPT ![i].pc = "exit"]
    /\ UNCHANGED << variant, initUrl, pages, disp, filter, seen, crawlPc, consumer >>
    /\ UNCHANGED chanVars /\ UNCHANGED histVars /\ UNCHANGED fetchVars /\ UNCHANGED followVars /\ UNCHANGED pureVars /\ UNCHANGED cmdVars

\* ------------------------------------------ the link filter goroutine
\* for link := range links
FilterRecv ==
    /\ filter.pc = "recv"
    /\ Len(links) > 0
    /\ filter' = [pc |-> "follow", link |-> Head(links).link, by |-> Head(links).by]
    /\ links' = Tail(links)
    /\ UNCHANGED << variant, initUrl, pages, unexplored, pending, pendingClosed, linksClosed,
                    out, outClosed, gs, disp, seen, crawlPc, consumer >>
    /\ UNCHANGED histVars /\ UNCHANGED fetchVars /\ UNCHANGED followVars /\ UNCHANGED pureVars /\ UNCHANGED cmdVars

FilterExit ==
    /\ filter.pc = "recv"
    /\ Len(links) = 0
    /\ linksClosed
    /\ filter' = [filter EXCEPT !.pc = "exit"]
    /\ UNCHANGED << variant, initUrl, pages, unexplored, gs, disp, seen, crawlPc, consumer >>
    /\ UNCHANGED chanVars /\ UNCHANGED histVars /\ UNCHANGED fetchVars /\ UNCHANGED followVars /\ UNCHANGED pureVars /\ UNCHANGED cmdVars

\* follower.Follow(link), up to and including hasSeen
FilterFollow ==
    /\ filter.pc = "follow"
    /\ asked' = asked \cup {filter.by}
    /\ filter' = [filter EXCEPT !.pc = IF FollowDenied(seen, filter.link)
                                       THEN "done" ELSE "record"]
    /\ UNCHANGED << variant, initUrl, pages, unexplored, gs, disp, seen, crawlPc, consumer >>
    /\ UNCHANGED chanVars
    /\ UNCHANGED << sent, nReceived, allowed, emittedBy, enqueuedFrom, closeCount, sendOnClosed >>
    /\ UNCHANGED fetchVars /\ UNCHANGED followVars /\ UNCHANGED pureVars /\ UNCHANGED cmdVars

FilterRecord ==
    /\ filter.pc = "record"
    /\ seen' = recordSeen(seen, sanitizeURL(filter.link.URL))
    /\ allowed' = [allowed EXCEPT ![sanitizeURL(filter.link.URL)] = @ + 1]
    /\ filter' = [filter EXCEPT !.pc = "send"]
    /\ UNCHANGED << variant, initUrl, pages, unexplored, gs, disp, crawlPc, consumer >>
    /\ UNCHANGED chanVars
    /\ UNCHANGED << sent, nReceived, emittedBy, asked, enqueuedFrom, closeCount, sendOnClosed >>
    /\ UNCHANGED fetchVars /\ UNCHANGED followVars /\ UNCHANGED pureVars /\ UNCHANGED cmdVars

\* Mutation: a rejected link is taken off the counter twice.
FilterDoneTwice ==
    /\ filter.pc = "done"
    /\ unexplored' = unexplored - 2
    /\ filter' = [pc |-> "recv", link |-> NoLink, by |-> 0]
    /\ UNCHANGED << variant, initUrl, pages, gs, disp, seen, crawlPc, consumer >>
    /\ UNCHANGED chanVars /\ UNCHANGED histVars /\ UNCHANGED fetchVars /\ UNCHANGED followVars /\ UNCHANGED pureVars /\ UNCHANGED cmdVars

\* the follower said no: unexplored.Done()
FilterDone ==
    /\ filter.pc = "done"
    /\ unexplored' = unexplored - 1
    /\ filter' = [pc |-> "recv", link |-> NoLink, by |-> 0]
    /\ UNCHANGED << variant, initUrl, pages, gs, disp, seen, crawlPc, consumer >>
    /\ UNCHANGED chanVars /\ UNCHANGED histVars /\ UNCHANGED fetchVars /\ UNCHANGED followVars /\ UNCHANGED pureVars /\ UNCHANGED cmdVars

\* pending <- LinkTask(link)
FilterSend ==
    /\ filter.pc = "send"
    /\ pendingClosed \/ Len(pending) < PendingCap
    /\ IF pendingClosed
       THEN /\ sendOnClosed' = sendOnClosed \cup {"pending"}
            /\ UNCHANGED << pending, enqueuedFrom >>
       ELSE /\ pending' = Append(pending, LinkTask(filter.link))
            /\ enqueuedFrom' = enqueuedFrom \cup {filter.by}
            /\ UNCHANGED sendOnClosed
    /\ filter' = [pc |-> "recv", link |-> NoLink, by |-> 0]
    /\ UNCHANGED << variant, initUrl, pages, unexplored, pendingClosed, links, linksClosed,
                    out, outClosed, gs, disp, seen, crawlPc, consumer >>
    /\ UNCHANGED << sent, nReceived, allowed, emittedBy, asked, closeCount >>
    /\ UNCHANGED fetchVars /\ UNCHANGED followVars /\ UNCHANGED pureVars /\ UNCHANGED cmdVars

\* ------------------------------------------------ the caller of crawl
\* Mutation: crawl goes on to close its channels without waiting for zero.
CrawlNoWait ==
    /\ crawlPc = "wait"
    /\ crawlPc' = IF variant = "inline" THEN "closePending" ELSE "closeLinks"
    /\ UNCHANGED << variant, initUrl, pages, unexplored, gs, disp, filter, seen, consumer >>
    /\ UNCHANGED chanVars /\ UNCHANGED histVars /\ UNCHANGED fetchVars /\ UNCHANGED followVars /\ UNCHANGED pureVars /\ UNCHANGED cmdVars

\* unexplored.Wait()
CrawlWait ==
    /\ crawlPc = "wait"
    /\ unexplored = 0
    /\ crawlPc' = IF variant = "inline" THEN "closePending" ELSE "closeLinks"
    /\ UNCHANGED << variant, initUrl, pages, unexplored, gs, disp, filter, seen, consumer >>
    /\ UNCHANGED chanVars /\ UNCHANGED histVars /\ UNCHANGED fetchVars /\ UNCHANGED followVars /\ UNCHANGED pureVars /\ UNCHANGED cmdVars

\* close(pending)
CrawlClosePending ==
    /\ crawlPc = "closePending"
    /\ pendingClosed' = TRUE
    /\ crawlPc' = "returned"
    /\ UNCHANGED << variant, initUrl, pages, unexplored, pending, links, linksClosed, out,
                    outClosed, gs, disp, filter, seen, consumer >>
    /\ UNCHANGED histVars /\ UNCHANGED fetchVars /\ UNCHANGED followVars /\ UNCHANGED pureVars /\ UNCHANGED cmdVars

\* Mutation: crawl returns after close(links), leaving out open.
CrawlCloseLinksOnly ==
    /\ crawlPc = "closeLinks"
    /\ linksClosed' = TRUE
    /\ crawlPc' = "returned"
    /\ UNCHANGED << variant, initUrl, pages, unexplored, pending, pendingClosed, links, out,
                    outClosed, gs, disp, filter, seen, consumer >>
    /\ UNCHANGED histVars /\ UNCHANGED fetchVars /\ UNCHANGED followVars /\ UNCHANGED pureVars /\ UNCHANGED cmdVars

\* close(links)
CrawlCloseLinks ==
    /\ crawlPc = "closeLinks"
    /\ linksClosed' = TRUE
    /\ crawlPc' = "closeOut"
    /\ UNCHANGED << variant, initUrl, pages, unexplored, pending, pendingClosed, links, out,
                    outClosed, gs, disp, filter, seen, consumer >>
    /\ UNCHANGED histVars /\ UNCHANGED fetchVars /\ UNCHANGED followVars /\ UNCHANGED pureVars /\ UNCHANGED cmdVars

\* close(out)
CrawlCloseOut ==
    /\ crawlPc = "closeOut"
    /\ outClosed' = TRUE
    /\ closeCount' = closeCount + 1
    /\ crawlPc' = "returned"
    /\ UNCHANGED << variant, initUrl, pages, unexplored, pending, pendingClosed, links,
                    linksClosed, out, gs, disp, filter, seen, consumer >>
    /\ UNCHANGED << sent, nReceived, allowed, emittedBy, asked, enqueuedFrom, sendOnClosed >>
    /\ UNCHANGED fetchVars /\ UNCHANGED followVars /\ UNCHANGED pureVars /\ UNCHANGED cmdVars

\* ------------------------------------------------------- the consumer
\* for page := range pages
ConsumerRecv ==
    /\ consumer = "run"
    /\ Len(out) > 0
    /\ out' = Tail(out)
    /\ nReceived' = nReceived + 1
    /\ UNCHANGED << variant, initUrl, pages, unexplored, pending, pendingClosed, links,
                    linksClosed, outClosed, gs, disp, filter, seen, crawlPc, consumer >>
    /\ UNCHANGED << sent, allowed, emittedBy, asked, enqueuedFrom, closeCount, sendOnClosed >>
    /\ UNCHANGED fetchVars /\ UNCHANGED followVars /\ UNCHANGED pureVars /\ UNCHANGED cmdVars

ConsumerExit ==
    /\ consumer = "run"
    /\ Len(out) = 0
    /\ outClosed
    /\ consumer' = "done"
    /\ UNCHANGED << variant, initUrl, pages, unexplored, gs, disp, filter, seen, crawlPc >>
    /\ UNCHANGED chanVars /\ UNCHANGED histVars /\ UNCHANGED fetchVars /\ UNCHANGED followVars /\ UNCHANGED pureVars /\ UNCHANGED cmdVars

Next ==
    \/ Dispatch
    \/ DispatchExit
    \/ \E i \in Gids : TaskFetch(i)
    \/ \E i \in Gids : TaskEmit(i)
    \/ \E i \in Gids : TaskFollow(i)
    \/ \E i \in Gids : TaskRecord(i)
    \/ \E i \in Gids : TaskAdd(i)
    \/ \E i \in Gids : TaskSend(i)
    \/ \E i \in Gids : TaskSendLink(i)
    \/ \E i \in Gids : TaskDone(i)
    \/ FilterRecv
    \/ FilterExit
    \/ FilterFollow
    \/ FilterRecord
    \/ FilterDone
    \/ FilterSend
    \/ CrawlWait
    \/ CrawlClosePending
    \/ CrawlCloseLinks
    \/ CrawlCloseOut
    \/ ConsumerRecv
    \/ ConsumerExit

Spec == Init /\ [][Next]_vars

\* Go's scheduler keeps running runnable goroutines, and the consumer keeps
\* ranging over the output stream.
FairSpec == Spec /\ WF_vars(Next)


\* ------------------------------------------------- a site with cycles
\* c/ -> c/1, c/2;  c/1 -> c/2#f, c/ (back to the seed);  c/2 -> c/1/, c/2.
CycleSeed == << "c", "/" >>
Cycle1 == << "c", "/", "1" >>
Cycle2 == << "c", "/", "2" >>
Cycle2Fragment == << "c", "/", "2", "#", "f" >>
Cycle1Slash == << "c", "/", "1", "/" >>

CycleRegistered == {CycleSeed, Cycle1, Cycle2}
CycleURLs == {CycleSeed, Cycle1, Cycle2, Cycle2Fragment, Cycle1Slash}

\* The Pages registered with the MockFetcher for this site.
CyclePage(u) ==
    IF u = CycleSeed THEN
        [URL |-> CycleSeed, Processed |-> TRUE, Depth |-> 0,
         Links |-> << Link("anchor", Cycle1, FALSE, 1), Link("anchor", Cycle2, FALSE, 1) >>,
         Assets |-> <<>>, Error |-> <<>>]
    ELSE IF u = Cycle1 THEN
        [URL |-> Cycle1, Processed |-> TRUE, Depth |-> 1,
         Links |-> << Link("anchor", Cycle2Fragment, FALSE, 2),
                      Link("anchor", CycleSeed, FALSE, 2) >>,
         Assets |-> <<>>, Error |-> <<>>]
    ELSE
        [URL |-> u, Processed |-> TRUE, Depth |-> 1,
         Links |-> << Link("anchor", Cycle1Slash, FALSE, 2), Link("anchor", Cycle2, FALSE, 2) >>,
         Assets |-> <<>>, Error |-> <<>>]

\* crawl started on the site with cycles, every page of it registered.
InitCycle(v) ==
    /\ variant = v
    /\ initUrl = CycleSeed
    /\ pages = [u \in CycleRegistered |-> CyclePage(u)]
    /\ unexplored = 1
    /\ pending = << Task(initUrl, 0) >>
    /\ pendingClosed = FALSE
    /\ links = <<>>
    /\ linksClosed = FALSE
    /\ out = <<>>
    /\ outClosed = FALSE
    /\ gs = <<>>
    /\ disp = "run"
    /\ filter = [pc |-> IF v = "links" THEN "recv" ELSE "none", link |-> NoLink, by |-> 0]
    /\ seen = NewUnseenFollower({initUrl})
    /\ crawlPc = "wait"
    /\ consumer = "run"
    /\ sent = [u \in CycleURLs |-> 0]
    /\ nReceived = 0
    /\ allowed = [h \in {sanitizeURL(u) : u \in CycleURLs} |-> 0]
    /\ emittedBy = {}
    /\ asked = {}
    /\ enqueuedFrom = {}
    /\ closeCount = 0
    /\ sendOnClosed = {}
    /\ fin = [kind |-> "idle", phase |-> "idle"]
    /\ fout = NoPage
    /\ ftasks = <<>>
    /\ FollowIdle
    /\ PureIdle
    /\ CmdIdle

CycleSpec == (InitCycle("inline") \/ InitCycle("links")) /\ [][Next]_vars

FairCycleSpec == CycleSpec /\ WF_vars(Next)

\* ----------------------------------------- the links crawl with a delay
\* The crawl of cmd/gergle/crawl.go called with delay > 0.  rl holds the
\* ticker: C is the number of ticks in its one-slot channel.
\* crawl called with delay > 0: ticker = time.NewTicker(delay), C still empty.
InitTick ==
    /\ variant = "links"
    /\ \E site \in Sites :
        /\ initUrl = site.initUrl
        /\ pages = NewMockFetcher(site.registered)
    /\ unexplored = 1
    /\ pending = << Task(initUrl, 0) >>
    /\ pendingClosed = FALSE
    /\ links = <<>>
    /\ linksClosed = FALSE
    /\ out = <<>>
    /\ outClosed = FALSE
    /\ gs = <<>>
    /\ disp = "run"
    /\ filter = [pc |-> "recv", link |-> NoLink, by |-> 0]
    /\ seen = NewUnseenFollower({initUrl})
    /\ crawlPc = "wait"
    /\ consumer = "run"
    /\ sent = [u \in AllURLs |-> 0]
    /\ nReceived = 0
    /\ allowed = [h \in {sanitizeURL(u) : u \in AllURLs} |-> 0]
    /\ emittedBy = {}
    /\ asked = {}
    /\ enqueuedFrom = {}
    /\ closeCount = 0
    /\ sendOnClosed = {}
    /\ fin = [kind |-> "idle", phase |-> "idle"]
    /\ fout = NoPage
    /\ ftasks = <<>>
    /\ FollowIdle
    /\ PureIdle
    /\ rl = [phase |-> "crawl", C |-> 0, stopped |-> FALSE]
    /\ cmd = NoCmd
    /\ lock = NoLock

\* go func(task Task) {...}(task): the new goroutine starts at <-ticker.C
DispatchTicked ==
    /\ disp = "run"
    /\ Len(pending) > 0
    /\ pending' = Tail(pending)
    /\ gs' = Append(gs, [task |-> Head(pending), pc |-> "tick", page |-> NoPage, i |-> 1])
    /\ UNCHANGED << variant, initUrl, pages, unexplored, pendingClosed, links, linksClosed,
                    out, outClosed, disp, filter, seen, crawlPc, consumer >>
    /\ UNCHANGED histVars /\ UNCHANGED fetchVars /\ UNCHANGED followVars /\ UNCHANGED pureVars /\ UNCHANGED cmdVars

\* The runtime timer fires; a tick that finds C full is dropped.
TickerTick ==
    /\ rl.phase = "crawl"
    /\ ~rl.stopped
    /\ rl.C = 0
    /\ rl' = [rl EXCEPT !.C = 1]
    /\ UNCHANGED << cmd, lock >>
    /\ UNCHANGED << variant, initUrl, pages, unexplored, gs, disp, filter, seen, crawlPc, consumer >>
    /\ UNCHANGED chanVars /\ UNCHANGED histVars /\ UNCHANGED fetchVars /\ UNCHANGED followVars /\ UNCHANGED pureVars

\* if ticker != nil { <-ticker.C }
TaskRecvTick(i) ==
    /\ gs[i].pc = "tick"
    /\ rl.C > 0
    /\ rl' = [rl EXCEPT !.C = @ - 1]
    /\ gs' = [gs EXCEPT ![i].pc = "fetch"]
    /\ UNCHANGED << variant, initUrl, pages, unexplored, disp, filter, seen, crawlPc, consumer >>
    /\ UNCHANGED chanVars /\ UNCHANGED histVars /\ UNCHANGED fetchVars /\ UNCHANGED followVars /\ UNCHANGED pureVars
    /\ UNCHANGED << cmd, lock >>

\* Mutation: ticker.Stop() is reached without waiting for the counter.
CrawlStopBeforeWait ==
    /\ crawlPc = "wait"
    /\ crawlPc' = "stopTicker"
    /\ UNCHANGED << variant, initUrl, pages, unexplored, gs, disp, filter, seen, consumer >>
    /\ UNCHANGED chanVars /\ UNCHANGED histVars /\ UNCHANGED fetchVars /\ UNCHANGED followVars /\ UNCHANGED pureVars /\ UNCHANGED cmdVars

\* unexplored.Wait(), with the ticker still to be stopped
CrawlWaitTicked ==
    /\ crawlPc = "wait"
    /\ unexplored = 0
    /\ crawlPc' = "stopTicker"
    /\ UNCHANGED << variant, initUrl, pages, unexplored, gs, disp, filter, seen, consumer >>
    /\ UNCHANGED chanVars /\ UNCHANGED histVars /\ UNCHANGED fetchVars /\ UNCHANGED followVars /\ UNCHANGED pureVars /\ UNCHANGED cmdVars

\* if ticker != nil { ticker.Stop() }: no tick is produced any more.
CrawlStopTicker ==
    /\ crawlPc = "stopTicker"
    /\ rl' = [rl EXCEPT !.stopped = TRUE]
    /\ crawlPc' = "closeLinks"
    /\ UNCHANGED << variant, initUrl, pages, unexplored, gs, disp, filter, seen, consumer >>
    /\ UNCHANGED chanVars /\ UNCHANGED histVars /\ UNCHANGED fetchVars /\ UNCHANGED followVars /\ UNCHANGED pureVars
    /\ UNCHANGED << cmd, lock >>

NextTick ==
    \/ DispatchTicked
    \/ TickerTick
    \/ \E i \in Gids : TaskRecvTick(i)
    \/ \E i \in Gids : TaskFetch(i)
    \/ \E i \in Gids : TaskEmit(i)
    \/ \E i \in Gids : TaskAdd(i)
    \/ \E i \in Gids : TaskSendLink(i)
    \/ \E i \in Gids : TaskDone(i)
    \/ FilterRecv
    \/ FilterExit
    \/ FilterFollow
    \/ FilterRecord
    \/ FilterDone
    \/ FilterSend
    \/ CrawlWaitTicked
    \/ CrawlStopTicker
    \/ CrawlCloseLinks
    \/ CrawlCloseOut
    \/ ConsumerRecv
    \/ ConsumerExit

TickSpec == InitTick /\ [][NextTick]_vars

\* Go's scheduler keeps running runnable goroutines and the timer keeps firing.
FairTickSpec == TickSpec /\ WF_vars(NextTick)

\* ------------------------------------- one call of a fetcher or the parser
FetchURL == URL("http", "a", "/s")
HrefLocal == Href(TRUE, URL("", "", "/p"))
HrefOther == Href(TRUE, URL("http", "x", "/q"))
HrefBad == Href(FALSE, URL("", "", ""))

Bodies ==
    { [base |-> <<>>, anchors |-> <<>>, assets |-> <<>>],
      [base |-> <<>>, anchors |-> << HrefLocal, HrefBad, HrefOther >>,
       assets |-> << <<"img", HrefLocal>> >>],
      [base |-> << HrefOther >>, anchors |-> << HrefLocal >>,
       assets |-> << <<"script", HrefBad>>, <<"img", HrefOther>> >>] }

Mimes ==
    { <<"t", "e", "x", "t", "/", "h">>, <<"T", "E", "X", "T", "/", "p">>,
      <<"t", "e", "x", "t">>, <<"i", "m", "g", "/", "p">>, <<>> }

Statuses == {200, 204, 404}

FetchDepths == (0..MaxFetchDepth) \cup {65535}

Responses ==
    [reqURL : {FetchURL}, status : Statuses, mime : Mimes,
     readErr : {"nil", "unexpected EOF"}, body : Bodies]

DefaultResponse ==
    [reqURL |-> FetchURL, status |-> 200, mime |-> <<"t", "e", "x", "t", "/", "h">>,
     readErr |-> "nil", body |-> [base |-> <<>>, anchors |-> <<>>, assets |-> <<>>]]

\* The same page asked for with a trailing slash.
FetchURLSlash == URL("http", "a", "/s/")

\* A page as a test registers it with NewMockFetcher.
RegisteredPage(u) ==
    [URL |-> u, Processed |-> TRUE, Depth |-> 0,
     Links |-> << Link("anchor", URL("http", "a", "/p"), FALSE, 1) >>,
     Assets |-> <<>>, Error |-> <<>>]

\* The sets of pages registered with the MockFetcher under test.
MockRegistered == {{}, {FetchURL}, {FetchURL, FetchURLSlash}}

FetchInputs ==
    [kind : {"ErrorPage"}, task : {Task(FetchURL, d) : d \in FetchDepths},
     err : {"nil", "boom"}, resp : {DefaultResponse}, phase : {"ready"}]
    \cup
    [kind : {"Mock"}, task : {Task(u, d) : u \in {FetchURL, FetchURLSlash}, d \in FetchDepths},
     err : {"nil"}, resp : {DefaultResponse}, phase : {"ready"}]
    \cup
    [kind : {"HTTP"}, task : {Task(FetchURL, d) : d \in FetchDepths},
     err : {"nil", "dial tcp: timeout"}, resp : Responses, phase : {"ready"}]
    \cup
    [kind : {"Parse"}, task : {Task(FetchURL, d) : d \in FetchDepths},
     err : {"nil"}, resp : Responses, phase : {"ready"}]

\* The bounds of the ShallowFollower beside LocalFollower in the chain.
StepMaxDepths == {MaxFetchDepth, 65535}

\* A task that is being fetched has passed the chain, so its depth is within
\* the bound of the chain's ShallowFollower.
InitFetch ==
    /\ fin \in FetchInputs
    /\ fout = NoPage
    /\ ftasks = <<>>
    /\ \E m \in StepMaxDepths :
        /\ fin.task.Depth <= m
        /\ chain = << LocalFollower, ShallowFollower(m) >>
    /\ useen = {}
    /\ call = NoCall
    /\ priorURLs = {}
    /\ PureIdle
    /\ CmdIdle
    /\ NoCrawl
    /\ \E registered \in MockRegistered :
        /\ fin.kind = "Mock" \/ registered = {}
        /\ pages = [u \in registered |-> RegisteredPage(u)]

crawlVars == << variant, initUrl, pages, unexplored, pending, pendingClosed, links, linksClosed,
                out, outClosed, gs, disp, filter, seen, crawlPc, consumer, sent,
                nReceived, allowed, emittedBy, asked, enqueuedFrom, closeCount,
                sendOnClosed >>

CallErrorPage ==
    /\ fin.kind = "ErrorPage" /\ fin.phase = "ready"
    /\ fout' = ErrorPage(fin.task.URL, fin.task.Depth, fin.err)
    /\ fin' = [fin EXCEPT !.phase = "done"]
    /\ UNCHANGED ftasks
    /\ UNCHANGED crawlVars /\ UNCHANGED followVars /\ UNCHANGED pureVars /\ UNCHANGED cmdVars

CallMockFetch ==
    /\ fin.kind = "Mock" /\ fin.phase = "ready"
    /\ fout' = MockFetch(pages, fin.task)
    /\ fin' = [fin EXCEPT !.phase = "done"]
    /\ UNCHANGED ftasks
    /\ UNCHANGED crawlVars /\ UNCHANGED followVars /\ UNCHANGED pureVars /\ UNCHANGED cmdVars

CallHTTPFetch ==
    /\ fin.kind = "HTTP" /\ fin.phase = "ready"
    /\ fout' = HTTPFetch(fin.task, fin.err, fin.resp)
    /\ fin' = [fin EXCEPT !.phase = "done"]
    /\ UNCHANGED ftasks
    /\ UNCHANGED crawlVars /\ UNCHANGED followVars /\ UNCHANGED pureVars /\ UNCHANGED cmdVars

CallParse ==
    /\ fin.kind = "Parse" /\ fin.phase = "ready"
    /\ fout' = Parse(fin.task, fin.resp)
    /\ fin' = [fin EXCEPT !.phase = "done"]
    /\ UNCHANGED ftasks
    /\ UNCHANGED crawlVars /\ UNCHANGED followVars /\ UNCHANGED pureVars /\ UNCHANGED cmdVars

\* for _, link := range page.Links: the tasks of the links the chain allows.
RECURSIVE followLinks(_, _)
followLinks(follower, pageLinks) ==
    IF pageLinks = <<>> THEN <<>>
    ELSE (IF UnanimousFollow(follower, {}, Head(pageLinks)).err # "nil" THEN <<>>
          ELSE << LinkTask(Head(pageLinks)) >>) \o followLinks(follower, Tail(pageLinks))

\* What crawl does with the page: every link goes to the follower, and the
\* allowed ones become tasks on pending.
CallFollowLinks ==
    /\ fin.phase = "done"
    /\ ftasks' = followLinks(chain, fout.Links)
    /\ fin' = [fin EXCEPT !.phase = "followed"]
    /\ UNCHANGED fout
    /\ UNCHANGED crawlVars /\ UNCHANGED followVars /\ UNCHANGED pureVars /\ UNCHANGED cmdVars

NextFetch ==
    \/ CallErrorPage
    \/ CallMockFetch
    \/ CallHTTPFetch
    \/ CallParse
    \/ CallFollowLinks

FetchSpec == InitFetch /\ [][NextFetch]_vars

\* ------------------------------------ sequential calls of a follower chain
\* Longest UnanimousFollower tried.
MaxChain == 3

\* The bound given to ShallowFollower and the depths around it, as in
\* TestShallowFollower.
MaxDepths == {10}

LinkDepths == {9, 10, 11}

UrlSeen == <<"/", "s">>
UrlSeenSlash == <<"/", "s", "/">>
UrlSeenFragment == <<"/", "s", "#", "f">>
UrlUnseen == <<"/", "u">>
UrlUnseenVariant == <<"/", "u", "/", "/", "#", "f", "/">>

FollowURLs == {UrlSeen, UrlSeenSlash, UrlSeenFragment, UrlUnseen, UrlUnseenVariant}

\* The URLs handed to NewUnseenFollower.
ConstructedURLs == {UrlSeenSlash}

FollowLinks ==
    {Link("anchor", u, e, d) : u \in FollowURLs, e \in BOOLEAN, d \in LinkDepths}

Followers == {LocalFollower, UnseenFollower} \cup {ShallowFollower(m) : m \in MaxDepths}

\* The chains tried; an UnseenFollower is not listed twice in one chain.
Chains ==
    {c \in UNION {[1..n -> Followers] : n \in 0..MaxChain} :
        Cardinality({k \in DOMAIN c : c[k].kind = "Unseen"}) <= 1}

InitFollow ==
    /\ chain \in Chains
    /\ useen = NewUnseenFollower(ConstructedURLs)
    /\ call = NoCall
    /\ priorURLs = {}
    /\ PureIdle
    /\ CmdIdle
    /\ FetchIdle
    /\ CrawlIdle

\* err := chain.Follow(link), one call after the other.
CallFollow ==
    /\ \E link \in FollowLinks :
        LET r == UnanimousFollow(chain, useen, link)
        IN /\ call' = [link |-> link, before |-> useen, err |-> r.err]
           /\ useen' = r.seen
    /\ priorURLs' = IF call = NoCall THEN priorURLs ELSE priorURLs \cup {call.link.URL}
    /\ UNCHANGED << chain >>
    /\ UNCHANGED crawlVars /\ UNCHANGED fetchVars /\ UNCHANGED pureVars /\ UNCHANGED cmdVars

NextFollow == CallFollow

FollowSpec == InitFollow /\ [][NextFollow]_vars

\* ------------------------------------------------ sanitizeURL on strings
\* Longest URL string tried as the starting point.
MaxLen == 3

UrlAlphabet == {"a", "/", "#"}

UrlStrings == UNION {[1..n -> UrlAlphabet] : n \in 0..MaxLen}

Fragments == {<<>>, <<"f">>, <<"/">>}

InitSanitize ==
    /\ \E u \in UrlStrings :
        san = [u |-> u, uout |-> sanitizeURL(u), v |-> u, vout |-> sanitizeURL(u)]
    /\ rob = NoRob
    /\ CrawlIdle
    /\ FetchIdle
    /\ FollowIdle
    /\ CmdIdle

\* The record after the second URL has become w and sanitizeURL has been
\* applied to it.
Rewritten(w) == [san EXCEPT !.v = w, !.vout = sanitizeURL(w)]

\* One more trailing slash on a URL without fragment.
AppendSlash ==
    /\ Index(san.v, "#") = 0
    /\ Len(san.v) < MaxLen + 2
    /\ san' = Rewritten(san.v \o << "/" >>)
    /\ UNCHANGED rob /\ UNCHANGED cmdVars
    /\ UNCHANGED crawlVars /\ UNCHANGED fetchVars /\ UNCHANGED followVars

\* One trailing slash less on a URL without fragment.
TrimSlash ==
    /\ Index(san.v, "#") = 0
    /\ Len(san.v) > 0 /\ san.v[Len(san.v)] = "/"
    /\ san' = Rewritten(SubSeq(san.v, 1, Len(san.v) - 1))
    /\ UNCHANGED rob /\ UNCHANGED cmdVars
    /\ UNCHANGED crawlVars /\ UNCHANGED fetchVars /\ UNCHANGED followVars

\* Another fragment, or a first one.
SetFragment ==
    /\ \E f \in Fragments : san' = Rewritten(StripFragment(san.v) \o << "#" >> \o f)
    /\ UNCHANGED rob /\ UNCHANGED cmdVars
    /\ UNCHANGED crawlVars /\ UNCHANGED fetchVars /\ UNCHANGED followVars

DropFragment ==
    /\ Index(san.v, "#") # 0
    /\ san' = Rewritten(StripFragment(san.v))
    /\ UNCHANGED rob /\ UNCHANGED cmdVars
    /\ UNCHANGED crawlVars /\ UNCHANGED fetchVars /\ UNCHANGED followVars

\* One more slash at the end of the part before the fragment.
SlashBeforeFragment ==
    /\ Index(san.v, "#") # 0
    /\ Len(StripFragment(san.v)) < MaxLen + 2
    /\ san' = Rewritten(StripFragment(san.v) \o << "/" >>
                            \o SubSeq(san.v, Index(san.v, "#"), Len(san.v)))
    /\ UNCHANGED rob /\ UNCHANGED cmdVars
    /\ UNCHANGED crawlVars /\ UNCHANGED fetchVars /\ UNCHANGED followVars

NextSanitize ==
    \/ AppendSlash
    \/ TrimSlash
    \/ SetFragment
    \/ DropFragment
    \/ SlashBeforeFragment

SanitizeSpec == InitSanitize /\ [][NextSanitize]_vars

\* ------------------------------------- building and asking a robots follower
\* Longest rule list tried.
MaxRules == 2

RuleHelLo == << "/", "h", "e", "l", ".", "l", "o" >>
RuleHelloWorld == << "h", "e", "l", "l", "o", "/", "*", "/", "w", "o", "r", "l", "d" >>
RuleStar == << "*" >>
RuleForum == << "/", "f", "o", "r", "u", "m", "*" >>

RuleStrings == {RuleHelLo, RuleHelloWorld, RuleStar, RuleForum}

RuleLists == UNION {[1..n -> RuleStrings] : n \in 0..MaxRules}

PathHelloAsdfWorld == << "h", "e", "l", "l", "o", "/", "a", "s", "d", "f", "/", "w", "o", "r", "l", "d" >>
PathHelLo == << "h", "e", "l", ".", "l", "o" >>
PathGoodbye == << "g", "o", "o", "d", "b", "y", "e" >>
PathSlashHelLo == << "/", "h", "e", "l", ".", "l", "o" >>
PathHelxlo == << "h", "e", "l", "x", "l", "o" >>
PathHelloWorld == << "h", "e", "l", "l", "o", "/", "/", "w", "o", "r", "l", "d" >>

Paths == {PathHelloAsdfWorld, PathHelLo, PathGoodbye, PathSlashHelLo, PathHelxlo,
          PathHelloWorld}

InitRobots ==
    /\ \E rules \in RuleLists : rob = [NoRob EXCEPT !.phase = "ready", !.disallowRule = rules]
    /\ san = NoSan
    /\ CrawlIdle
    /\ FetchIdle
    /\ FollowIdle
    /\ CmdIdle

\* f := NewRobotsDisallowFollower(rules...)
CallNewRobotsDisallowFollower ==
    /\ rob.phase = "ready"
    /\ rob' = [rob EXCEPT !.phase = "built",
                           !.Rules = NewRobotsDisallowFollower(rob.disallowRule)]
    /\ UNCHANGED san /\ UNCHANGED cmdVars
    /\ UNCHANGED crawlVars /\ UNCHANGED fetchVars /\ UNCHANGED followVars

\* err := f.Follow(&Link{URL: &url.URL{Path: path}})
CallRegexpDisallowFollow ==
    /\ rob.phase \in {"built", "followed"}
    /\ \E path \in Paths :
        rob' = [rob EXCEPT !.phase = "followed", !.path = path,
                           !.err = RegexpDisallowFollow(rob.Rules, path)]
    /\ UNCHANGED san /\ UNCHANGED cmdVars
    /\ UNCHANGED crawlVars /\ UNCHANGED fetchVars /\ UNCHANGED followVars

NextRobots ==
    \/ CallNewRobotsDisallowFollower
    \/ CallRegexpDisallowFollow

RobotsSpec == InitRobots /\ [][NextRobots]_vars

\* ------------------------------------- callers of a RateLimitedFetcher
NumCallers == 3
MaxTicks == 3

Callers == 1..NumCallers

\* r := NewRateLimitedFetcher(delay, fetcher): the ticker's channel C has a
\* buffer of one tick and nothing has been fetched yet.
NewRateLimitedFetcher ==
    [phase |-> "run", ticks |-> 0, delivered |-> 0, C |-> 0, stopped |-> FALSE,
     pc |-> [c \in Callers |-> "idle"], started |-> 0, returned |-> 0]

InitRate ==
    /\ rl = NewRateLimitedFetcher
    /\ cmd = NoCmd
    /\ lock = NoLock
    /\ CrawlIdle
    /\ FetchIdle
    /\ FollowIdle
    /\ PureIdle

\* The ticker's period elapses: the tick goes into C unless C is full, in
\* which case it is dropped.
Tick ==
    /\ rl.phase = "run"
    /\ ~rl.stopped
    /\ rl.ticks < MaxTicks
    /\ rl' = [rl EXCEPT !.ticks = @ + 1,
                        !.C = 1,
                        !.delivered = IF rl.C = 0 THEN @ + 1 ELSE @]
    /\ UNCHANGED << cmd, lock >>
    /\ UNCHANGED crawlVars /\ UNCHANGED fetchVars /\ UNCHANGED followVars /\ UNCHANGED pureVars

\* A goroutine calls r.Fetch(task) and reaches the receive from ticker.C.
CallFetch(c) ==
    /\ rl.phase = "run"
    /\ rl.pc[c] = "idle"
    /\ rl' = [rl EXCEPT !.pc[c] = "wait"]
    /\ UNCHANGED << cmd, lock >>
    /\ UNCHANGED crawlVars /\ UNCHANGED fetchVars /\ UNCHANGED followVars /\ UNCHANGED pureVars

\* Mutation: the caller looks at the tick without taking it out of C.
RecvTickPeek(c) ==
    /\ rl.phase = "run"
    /\ rl.pc[c] = "wait"
    /\ rl.C > 0
    /\ rl' = [rl EXCEPT !.pc[c] = "fetch", !.started = @ + 1]
    /\ UNCHANGED << cmd, lock >>
    /\ UNCHANGED crawlVars /\ UNCHANGED fetchVars /\ UNCHANGED followVars /\ UNCHANGED pureVars

\* <-r.ticker.C succeeds and the caller enters r.fetcher.Fetch(task)
RecvTick(c) ==
    /\ rl.phase = "run"
    /\ rl.pc[c] = "wait"
    /\ rl.C > 0
    /\ rl' = [rl EXCEPT !.C = @ - 1, !.pc[c] = "fetch", !.started = @ + 1]
    /\ UNCHANGED << cmd, lock >>
    /\ UNCHANGED crawlVars /\ UNCHANGED fetchVars /\ UNCHANGED followVars /\ UNCHANGED pureVars

\* r.fetcher.Fetch(task) returns its Page, which r.Fetch returns
ReturnFetch(c) ==
    /\ rl.phase = "run"
    /\ rl.pc[c] = "fetch"
    /\ rl' = [rl EXCEPT !.pc[c] = "done", !.returned = @ + 1]
    /\ UNCHANGED << cmd, lock >>
    /\ UNCHANGED crawlVars /\ UNCHANGED fetchVars /\ UNCHANGED followVars /\ UNCHANGED pureVars

\* r.Stop(): no tick is produced any more; C is left as it is, open.
Stop ==
    /\ rl.phase = "run"
    /\ ~rl.stopped
    /\ rl' = [rl EXCEPT !.stopped = TRUE]
    /\ UNCHANGED << cmd, lock >>
    /\ UNCHANGED crawlVars /\ UNCHANGED fetchVars /\ UNCHANGED followVars /\ UNCHANGED pureVars

NextRate ==
    \/ Tick
    \/ \E c \in Callers : CallFetch(c)
    \/ \E c \in Callers : RecvTick(c)
    \/ \E c \in Callers : ReturnFetch(c)
    \/ Stop

RateSpec == InitRate /\ [][NextRate]_vars

\* ------------------------------------------------ one run of the command
\* The byte 0 in a robots.txt body.
NUL == "NUL"

UpperCase == << "A", "B", "C", "D", "E", "F", "G", "H", "I", "J", "K", "L", "M",
               "N", "O", "P", "Q", "R", "S", "T", "U", "V", "W", "X", "Y", "Z" >>
LowerCase == << "a", "b", "c", "d", "e", "f", "g", "h", "i", "j", "k", "l", "m",
               "n", "o", "p", "q", "r", "s", "t", "u", "v", "w", "x", "y", "z" >>

Letters ==
    {"a", "b", "c", "d", "e", "f", "g", "h", "i", "j", "k", "l", "m",
     "n", "o", "p", "q", "r", "s", "t", "u", "v", "w", "x", "y", "z",
     "A", "B", "C", "D", "E", "F", "G", "H", "I", "J", "K", "L", "M",
     "N", "O", "P", "Q", "R", "S", "T", "U", "V", "W", "X", "Y", "Z"}

Digits == << "0", "1", "2", "3", "4", "5", "6", "7", "8", "9" >>

\* Case folding of one character, as the (?i) flag and strings.ToLower do.
FoldChar(c) ==
    IF \E k \in 1..26 : UpperCase[k] = c
    THEN LowerCase[CHOOSE k \in 1..26 : UpperCase[k] = c]
    ELSE c

Fold(str) == [k \in 1..Len(str) |-> FoldChar(str[k])]

\* net/url getScheme as url.Parse uses it: the scheme is the run of letters
\* (digits, '+', '-', '.' after the first) before the first ':'; a leading
\* ':' is the error "missing protocol scheme".
RECURSIVE getScheme(_, _)
getScheme(rawurl, i) ==
    IF i > Len(rawurl) THEN [scheme |-> <<>>, rest |-> rawurl, err |-> FALSE]
    ELSE LET c == rawurl[i]
         IN IF c \in Letters THEN getScheme(rawurl, i + 1)
            ELSE IF (\E k \in 1..10 : Digits[k] = c) \/ c \in {"+", "-", "."}
            THEN IF i = 1 THEN [scheme |-> <<>>, rest |-> rawurl, err |-> FALSE]
                 ELSE getScheme(rawurl, i + 1)
            ELSE IF c = ":"
            THEN IF i = 1 THEN [scheme |-> <<>>, rest |-> <<>>, err |-> TRUE]
                 ELSE [scheme |-> SubSeq(rawurl, 1, i - 1),
                       rest |-> SubSeq(rawurl, i + 1, Len(rawurl)), err |-> FALSE]
            ELSE [scheme |-> <<>>, rest |-> rawurl, err |-> FALSE]

\* url.Parse(rawurl), as far as main looks at the result: the error and the
\* lower-cased scheme.
urlParse(rawurl) ==
    LET s == getScheme(rawurl, 1)
    IN [Scheme |-> Fold(s.scheme), rest |-> s.rest, err |-> s.err]

SchemeHttp == << "h", "t", "t", "p" >>
SchemeHttps == << "h", "t", "t", "p", "s" >>

ArgHttpA == << "h", "t", "t", "p", ":", "/", "/", "a", "/" >>
ArgHttpsA == << "h", "t", "t", "p", "s", ":", "/", "/", "a", "/" >>
ArgUpperHttpA == << "H", "T", "T", "P", ":", "/", "/", "a", "/" >>
ArgFtpA == << "f", "t", "p", ":", "/", "/", "a", "/" >>
ArgNoScheme == << "a", "/" >>
ArgColon == << ":", "a" >>

ArgURLs == {ArgHttpA, ArgHttpsA, ArgUpperHttpA, ArgFtpA, ArgNoScheme, ArgColon}

\* The argument lists after the flags: none, one URL, a URL and one more.
ArgLists == {<<>>} \cup {<< u >> : u \in ArgURLs} \cup {<< ArgHttpA, ArgHttpsA >>}

IsSpace(c) == c \in {" ", "\n", "\t", "\r"}

\* Whether str has the literal lit at position i, letters folded.
HasFoldedAt(str, i, lit) ==
    /\ i + Len(lit) - 1 <= Len(str)
    /\ Fold(SubSeq(str, i, i + Len(lit) - 1)) = lit

\* The first position from i on that holds no white space.
RECURSIVE SkipSpace(_, _)
SkipSpace(str, i) ==
    IF i <= Len(str) /\ IsSpace(str[i]) THEN SkipSpace(str, i + 1) ELSE i

\* The first position from i on that holds white space, or Len(str) + 1.
RECURSIVE NextSpace(_, _)
NextSpace(str, i) ==
    IF i <= Len(str) /\ ~IsSpace(str[i]) THEN NextSpace(str, i + 1) ELSE i

DisallowLit == << "d", "i", "s", "a", "l", "l", "o", "w", ":" >>
CrawlDelayLit == << "c", "r", "a", "w", "l", "-", "d", "e", "l", "a", "y", ":" >>

\* bytes.IndexByte(body, 0), counted from 0; -1 when there is no such byte.
IndexByteNUL(body) == Index(body, NUL) - 1

\* robotsTxtDisallowRegex.FindAllSubmatch(body, n), the first groups: after
\* "Disallow:" and the white space following it, the characters up to the
\* next white space or the end; when only white space follows, the last of
\* it.  At most n matches when n >= 0.
RECURSIVE FindAllDisallow(_, _, _)
FindAllDisallow(body, pos, n) ==
    IF n = 0 \/ pos > Len(body) THEN <<>>
    ELSE IF ~HasFoldedAt(body, pos, DisallowLit) THEN FindAllDisallow(body, pos + 1, n)
    ELSE LET j == pos + Len(DisallowLit)
             k == SkipSpace(body, j)
         IN IF k <= Len(body)
            THEN LET e == NextSpace(body, k + 1)
                 IN << SubSeq(body, k, e - 1) >> \o FindAllDisallow(body, e + 1, n - 1)
            ELSE IF k > j THEN << SubSeq(body, Len(body), Len(body)) >>
            ELSE FindAllDisallow(body, pos + 1, n)

\* readDisallowRules(body)
readDisallowRules(body) == FindAllDisallow(body, 1, IndexByteNUL(body))

\* The end of the run of digits and dots that starts at i.
RECURSIVE NumberEnd(_, _)
NumberEnd(str, i) ==
    IF i <= Len(str) /\ ((\E k \in 1..10 : Digits[k] = str[i]) \/ str[i] = ".")
    THEN NumberEnd(str, i + 1) ELSE i

\* crawlDelayRegex.FindSubmatch(body), the first group, <<>> for no match.
RECURSIVE FindCrawlDelay(_, _)
FindCrawlDelay(body, pos) ==
    IF pos > Len(body) THEN <<>>
    ELSE IF ~HasFoldedAt(body, pos, CrawlDelayLit) THEN FindCrawlDelay(body, pos + 1)
    ELSE LET k == SkipSpace(body, pos + Len(CrawlDelayLit))
             e == NumberEnd(body, k)
         IN IF e > k THEN SubSeq(body, k, e - 1) ELSE FindCrawlDelay(body, pos + 1)

DigitValue(c) == (CHOOSE k \in 1..10 : Digits[k] = c) - 1

RECURSIVE DecimalValue(_)
DecimalValue(ds) ==
    IF ds = <<>> THEN 0 ELSE 10 * DecimalValue(SubSeq(ds, 1, Len(ds) - 1)) + DigitValue(ds[Len(ds)])

\* strconv.ParseFloat(str, 64) on digits and dots, in milliseconds (three
\* decimals); err for no digit at all or more than one dot.
ParseFloat(str) ==
    LET dot == Index(str, ".")
        int == IF dot = 0 THEN str ELSE SubSeq(str, 1, dot - 1)
        frac == IF dot = 0 THEN <<>> ELSE SubSeq(str, dot + 1, Len(str))
        frac3 == SubSeq(frac \o << "0", "0", "0" >>, 1, 3)
    IN IF Index(frac, ".") # 0 \/ (int = <<>> /\ frac = <<>>)
       THEN [value |-> 0, err |-> TRUE]
       ELSE [value |-> 1000 * DecimalValue(int) + DecimalValue(frac3), err |-> FALSE]

\* readCrawlDelay(body), in milliseconds
readCrawlDelay(body) ==
    LET delayMatch == FindCrawlDelay(body, 1)
    IN IF delayMatch = <<>> THEN 0
       ELSE IF ParseFloat(delayMatch).err THEN 0
       ELSE ParseFloat(delayMatch).value

\* parseDisallowRules(rules): regexp.MustCompile panics on a rule whose
\* expression does not compile.
parseDisallowRules(rules) ==
    [panic |-> \E k \in 1..Len(rules) : Compile(RuleExpr(rules[k])) = <<>>,
     rules |-> [k \in 1..Len(rules) |-> Compile(RuleExpr(rules[k]))]]

BodyRuleAndDelay == << "D", "i", "s", "a", "l", "l", "o", "w", ":", " ", "/", "b",
    "\n", "C", "r", "a", "w", "l", "-", "D", "e", "l", "a", "y", ":", " ", "2" >>
BodyTwoRules == << "D", "i", "s", "a", "l", "l", "o", "w", ":", " ", "/", "b", "\n",
    "d", "i", "s", "a", "l", "l", "o", "w", ":", " ", "/", "x" >>
BodyDelayFraction == << "C", "r", "a", "w", "l", "-", "d", "e", "l", "a", "y", ":",
    " ", "1", ".", "5", "\n" >>
BodyDelayDot == << "C", "r", "a", "w", "l", "-", "D", "e", "l", "a", "y", ":", " ",
    "." >>
BodyLeadingNUL == << NUL, "D", "i", "s", "a", "l", "l", "o", "w", ":", " ", "/", "b" >>
BodyStarRule == << "D", "i", "s", "a", "l", "l", "o", "w", ":", " ", "/", "*" >>
BodyEmpty == << >>

RobotsBodies == {BodyRuleAndDelay, BodyTwoRules, BodyDelayFraction, BodyDelayDot,
             BodyLeadingNUL, BodyStarRule, BodyEmpty}

\* What the server does with the request for /robots.txt.
RobotsResponses ==
    {[err |-> TRUE, StatusCode |-> 0, readErr |-> FALSE, body |-> <<>>],
     [err |-> FALSE, StatusCode |-> 404, readErr |-> FALSE, body |-> <<>>],
     [err |-> FALSE, StatusCode |-> 200, readErr |-> TRUE, body |-> <<>>]}
    \cup {[err |-> FALSE, StatusCode |-> 200, readErr |-> FALSE, body |-> b] :
            b \in RobotsBodies}

\* fetchRobots(client, initUrl), given the server's response
fetchRobots(resp) ==
    IF resp.err \/ resp.StatusCode # 200 \/ resp.readErr
    THEN [body |-> <<>>, err |-> TRUE]
    ELSE [body |-> resp.body, err |-> FALSE]

\* The values of --delay, in milliseconds: the default -1, 0 and 3 seconds.
DelayFlags == {-1000, 0, 3000}

\* The values of --disallow.
DisallowFlags == {<<>>, << RuleForum >>}

\* The command has parsed its flags and calls RunE.
InitMain ==
    /\ \E verbose \in BOOLEAN, quiet \in BOOLEAN, args \in ArgLists,
          zeroBothers \in BOOLEAN, delay \in DelayFlags, disallow \in DisallowFlags,
          resp \in RobotsResponses :
        cmd = [phase |-> "RunE", verbose |-> verbose, quiet |-> quiet, args |-> args,
               zeroBothers |-> zeroBothers, delayFlag |-> delay, disallowFlag |-> disallow,
               resp |-> resp, delay |-> delay, disallow |-> disallow,
               initUrl |-> urlParse(<<>>), message |-> "", fetches |-> <<>>,
               robotsErr |-> FALSE, Rules |-> <<>>, delayDuration |-> 0]
    /\ rl = NoRl
    /\ lock = NoLock
    /\ CrawlIdle
    /\ FetchIdle
    /\ FollowIdle
    /\ PureIdle

\* Mutation: arguments after the URL are ignored.
ConfigMessageFirstArg(c) ==
    IF c.verbose /\ c.quiet THEN "--verbose and --quiet are mutually exclusive options."
    ELSE IF Len(c.args) < 1 THEN "URL argument required."
    ELSE IF \/ urlParse(c.args[1]).err
            \/ (urlParse(c.args[1]).Scheme # SchemeHttp
                /\ urlParse(c.args[1]).Scheme # SchemeHttps)
    THEN "Expected URL of the form http[s]://..."
    ELSE ""

\* The error RunE returns for the flags and arguments, "" for none.
ConfigMessage(c) ==
    IF c.verbose /\ c.quiet THEN "--verbose and --quiet are mutually exclusive options."
    ELSE IF Len(c.args) < 1 THEN "URL argument required."
    ELSE IF Len(c.args) > 1 THEN "Unexpected arguments after URL."
    ELSE IF \/ urlParse(c.args[1]).err
            \/ (urlParse(c.args[1]).Scheme # SchemeHttp
                /\ urlParse(c.args[1]).Scheme # SchemeHttps)
    THEN "Expected URL of the form http[s]://..."
    ELSE ""

\* RunE up to the HTTP client: the checks of the flags, the arguments and the
\* URL, each returning an error.
RunEConfig ==
    /\ cmd.phase = "RunE"
    /\ cmd' = IF ConfigMessage(cmd) # ""
              THEN [cmd EXCEPT !.phase = "error", !.message = ConfigMessage(cmd)]
              ELSE [cmd EXCEPT !.phase = "robots", !.initUrl = urlParse(cmd.args[1])]
    /\ UNCHANGED << rl, lock >>
    /\ UNCHANGED crawlVars /\ UNCHANGED fetchVars /\ UNCHANGED followVars /\ UNCHANGED pureVars

\* Mutation: the Crawl-Delay of robots.txt replaces an explicit delay.
DelayWithAlways(c, robots) == readCrawlDelay(robots)

\* The delay after robots.txt has been read.
DelayWith(c, robots) == IF c.delay < 0 THEN readCrawlDelay(robots) ELSE c.delay

\* if !zeroBothers { robots, err := fetchRobots(...) ... }
RunERobots ==
    /\ cmd.phase = "robots"
    /\ cmd' = IF cmd.zeroBothers THEN [cmd EXCEPT !.phase = "crawl"]
              ELSE LET r == fetchRobots(cmd.resp)
                   IN IF ~r.err
                      THEN [cmd EXCEPT !.phase = "crawl",
                                       !.fetches = Append(@, "robots.txt"),
                                       !.disallow = @ \o readDisallowRules(r.body),
                                       !.delay = DelayWith(cmd, r.body)]
                      ELSE [cmd EXCEPT !.phase = "crawl",
                                       !.fetches = Append(@, "robots.txt"),
                                       !.robotsErr = TRUE]
    /\ UNCHANGED << rl, lock >>
    /\ UNCHANGED crawlVars /\ UNCHANGED fetchVars /\ UNCHANGED followVars /\ UNCHANGED pureVars

\* delayDuration and go crawl(..., parseDisallowRules(disallow), ...,
\* delayDuration): the rules are compiled before the goroutine starts.
RunECrawl ==
    /\ cmd.phase = "crawl"
    /\ cmd' = IF parseDisallowRules(cmd.disallow).panic
              THEN [cmd EXCEPT !.phase = "panic"]
              ELSE [cmd EXCEPT !.phase = "pages",
                               !.fetches = Append(@, "crawl"),
                               !.Rules = parseDisallowRules(cmd.disallow).rules,
                               !.delayDuration = IF cmd.delay > 0 THEN cmd.delay ELSE 0]
    /\ UNCHANGED << rl, lock >>
    /\ UNCHANGED crawlVars /\ UNCHANGED fetchVars /\ UNCHANGED followVars /\ UNCHANGED pureVars

\* for page := range pages { ... }; return nil
RunEReturn ==
    /\ cmd.phase = "pages"
    /\ cmd' = [cmd EXCEPT !.phase = "done"]
    /\ UNCHANGED << rl, lock >>
    /\ UNCHANGED crawlVars /\ UNCHANGED fetchVars /\ UNCHANGED followVars /\ UNCHANGED pureVars

NextMain ==
    \/ RunEConfig
    \/ RunERobots
    \/ RunECrawl
    \/ RunEReturn

MainSpec == InitMain /\ [][NextMain]_vars

\* ------------------------------------------------- the worker-pool crawl
MaxWorkers == 2

\* The sites of the worker-pool crawl; a URL string is a one-letter host
\* followed by the path.
PoolSeed == << "w", "/" >>
PoolW(k) == << "w", "/", k >>
PoolWP == << "w", "/", "p" >>
PoolSmallSeed == << "v", "/" >>
PoolV(k) == << "v", "/", k >>
PoolVP == << "v", "/", "p" >>
PoolX == << "x", "/" >>

PoolURLs ==
    {PoolSeed, PoolWP, PoolSmallSeed, PoolVP, PoolX}
        \cup {PoolW(k) : k \in {"1", "2", "3", "4", "5", "6"}}
        \cup {PoolV(k) : k \in {"1", "2", "3"}}

\* link.URL.Path
PathOf(u) == SubSeq(u, 2, Len(u))

\* The anchors of each page, resolved against its URL, as FollowLink sees
\* them: the absolute URL and whether scheme or host differ from the base's.
PoolAnchors(u) ==
    IF u = PoolSeed THEN
        << [URL |-> PoolW("1"), External |-> FALSE], [URL |-> PoolW("2"), External |-> FALSE],
           [URL |-> PoolW("3"), External |-> FALSE], [URL |-> PoolW("4"), External |-> FALSE],
           [URL |-> PoolW("5"), External |-> FALSE], [URL |-> PoolW("6"), External |-> FALSE] >>
    ELSE IF u = PoolW("1") THEN
        << [URL |-> PoolW("2"), External |-> FALSE], [URL |-> PoolX, External |-> TRUE] >>
    ELSE IF u = PoolSmallSeed THEN
        << [URL |-> PoolV("1"), External |-> FALSE], [URL |-> PoolVP, External |-> FALSE],
           [URL |-> PoolX, External |-> TRUE] >>
    ELSE IF u = PoolV("1") THEN
        << [URL |-> PoolSmallSeed, External |-> FALSE], [URL |-> PoolV("2"), External |-> FALSE] >>
    ELSE IF u = PoolV("2") THEN
        << [URL |-> PoolV("3"), External |-> FALSE] >>
    ELSE <<>>

\* What the server does with a request: the URLs answered with 200 and an
\* HTML body, those answered with 404, and the rest, where the request fails.
PoolSites ==
    {[initUrl |-> PoolSeed, ok |-> {u \in PoolURLs : u[1] = "w"}, notFound |-> {}],
     [initUrl |-> PoolSmallSeed, ok |-> {PoolSmallSeed, PoolV("1"), PoolV("2")}, notFound |-> {}],
     [initUrl |-> PoolSmallSeed, ok |-> {PoolSmallSeed, PoolV("2")}, notFound |-> {PoolV("1")}],
     [initUrl |-> PoolSmallSeed, ok |-> {PoolSmallSeed, PoolV("1")}, notFound |-> {}]}

\* client.Get(url): the response's status, "nil" for no response and an error.
clientGet(server, u) ==
    IF u \in server.ok THEN "200" ELSE IF u \in server.notFound THEN "404" ELSE "nil"

\* parsePage(pageUrl, depth, resp), the body being HTML with the page's anchors
parsePage(pageUrl, depth, resp) ==
    IF resp # "200" THEN ErrorPage(pageUrl, depth, "Non-200 response")
    ELSE [URL |-> pageUrl, Processed |-> TRUE, Depth |-> depth,
          Links |-> [k \in 1..Len(PoolAnchors(pageUrl)) |->
                        Link("anchor", PoolAnchors(pageUrl)[k].URL,
                             PoolAnchors(pageUrl)[k].External, (depth + 1) % 65536)],
          Assets |-> <<>>, Error |-> <<>>]

\* The arguments maxDepth and disallow of the crawls tried.
PoolMaxDepth == 2
PoolDisallow == parseDisallowRules(<< << "/", "p" >> >>).rules

\* The closure follow of crawl
follow(link) ==
    IF link.External THEN FALSE
    ELSE IF link.Depth > PoolMaxDepth THEN FALSE
    ELSE ~\E k \in 1..Len(PoolDisallow) : MatchString(PoolDisallow[k][1], PathOf(link.URL))

\* State after crawl has seeded the queue and started the filter and the
\* numWorkers workers.
InitPool ==
    /\ variant = "workers"
    /\ \E site \in PoolSites :
        /\ initUrl = site.initUrl
        /\ pages = [ok |-> site.ok, notFound |-> site.notFound]
    /\ unexplored = 1
    /\ pending = << Task(initUrl, 0) >>
    /\ pendingClosed = FALSE
    /\ links = <<>>
    /\ linksClosed = FALSE
    /\ out = <<>>
    /\ outClosed = FALSE
    /\ \E numWorkers \in 1..MaxWorkers :
        gs = [w \in 1..numWorkers |->
                [task |-> Task(<<>>, 0), pc |-> "recv", page |-> NoPage, i |-> 1,
                 resp |-> "none"]]
    /\ disp = "none"
    /\ filter = [pc |-> "recv", link |-> NoLink, by |-> 0]
    /\ seen = {sanitizeURL(initUrl)}
    /\ crawlPc = "wait"
    /\ consumer = "run"
    /\ sent = [u \in PoolURLs |-> 0]
    /\ nReceived = 0
    /\ allowed = [h \in {sanitizeURL(u) : u \in AllURLs} |-> 0]
    /\ emittedBy = {}
    /\ asked = {}
    /\ enqueuedFrom = {}
    /\ closeCount = 0
    /\ sendOnClosed = {}
    /\ FetchIdle
    /\ FollowIdle
    /\ PureIdle
    /\ CmdIdle

\* A panic in any goroutine ends the whole program.
PoolPanicked == \E w \in Gids : gs[w].pc = "panic"

\* for task := range pending (pending is never closed)
WorkerRecv(w) ==
    /\ ~PoolPanicked
    /\ gs[w].pc = "recv"
    /\ Len(pending) > 0
    /\ pending' = Tail(pending)
    /\ gs' = [gs EXCEPT ![w] = [task |-> Head(pending), pc |-> "get", page |-> NoPage,
                               i |-> 1, resp |-> "none"]]
    /\ UNCHANGED << variant, initUrl, pages, unexplored, pendingClosed, links,
                    linksClosed, out, outClosed, disp, filter, seen, crawlPc, consumer,
                    sent, nReceived, allowed, emittedBy, asked, enqueuedFrom, closeCount,
                    sendOnClosed >>
    /\ UNCHANGED fetchVars /\ UNCHANGED followVars /\ UNCHANGED pureVars /\ UNCHANGED cmdVars

\* resp, err := client.Get(task.URL.String()) and the if/else that sets page;
\* no ticker, the delay being 0.  resp is nil when err is not.
WorkerGet(w) ==
    /\ ~PoolPanicked
    /\ gs[w].pc = "get"
    /\ gs' = [gs EXCEPT ![w].pc = "close",
                       ![w].resp = clientGet(pages, gs[w].task.URL),
                       ![w].page = IF clientGet(pages, gs[w].task.URL) = "nil"
                                   THEN ErrorPage(gs[w].task.URL, gs[w].task.Depth, "transport")
                                   ELSE parsePage(gs[w].task.URL, gs[w].task.Depth,
                                                  clientGet(pages, gs[w].task.URL))]
    /\ UNCHANGED << variant, initUrl, pages, unexplored, pending, pendingClosed, links,
                    linksClosed, out, outClosed, disp, filter, seen, crawlPc, consumer,
                    sent, nReceived, allowed, emittedBy, asked, enqueuedFrom, closeCount,
                    sendOnClosed >>
    /\ UNCHANGED fetchVars /\ UNCHANGED followVars /\ UNCHANGED pureVars /\ UNCHANGED cmdVars

\* resp.Body.Close(), after the if/else: a nil pointer dereference when the
\* request failed, which ends the program.
WorkerClose(w) ==
    /\ ~PoolPanicked
    /\ gs[w].pc = "close"
    /\ gs' = [gs EXCEPT ![w].pc = IF gs[w].resp = "nil" THEN "panic" ELSE "emit"]
    /\ UNCHANGED << variant, initUrl, pages, unexplored, pending, pendingClosed, links,
                    linksClosed, out, outClosed, disp, filter, seen, crawlPc, consumer,
                    sent, nReceived, allowed, emittedBy, asked, enqueuedFrom, closeCount,
                    sendOnClosed >>
    /\ UNCHANGED fetchVars /\ UNCHANGED followVars /\ UNCHANGED pureVars /\ UNCHANGED cmdVars

\* out <- page
WorkerEmit(w) ==
    /\ ~PoolPanicked
    /\ gs[w].pc = "emit"
    /\ Len(out) < OutCap
    /\ out' = Append(out, gs[w].page)
    /\ sent' = [sent EXCEPT ![gs[w].page.URL] = @ + 1]
    /\ gs' = [gs EXCEPT ![w].pc = IF Len(gs[w].page.Links) >= 1 THEN "add" ELSE "done"]
    /\ UNCHANGED << variant, initUrl, pages, unexplored, pending, pendingClosed, links,
                    linksClosed, outClosed, disp, filter, seen, crawlPc, consumer,
                    nReceived, allowed, emittedBy, asked, enqueuedFrom, closeCount,
                    sendOnClosed >>
    /\ UNCHANGED fetchVars /\ UNCHANGED followVars /\ UNCHANGED pureVars /\ UNCHANGED cmdVars

\* unexplored.Add(1)
WorkerAdd(w) ==
    /\ ~PoolPanicked
    /\ gs[w].pc = "add"
    /\ unexplored' = unexplored + 1
    /\ gs' = [gs EXCEPT ![w].pc = "sendlink"]
    /\ UNCHANGED << variant, initUrl, pages, pending, pendingClosed, links, linksClosed,
                    out, outClosed, disp, filter, seen, crawlPc, consumer, sent,
                    nReceived, allowed, emittedBy, asked, enqueuedFrom, closeCount,
                    sendOnClosed >>
    /\ UNCHANGED fetchVars /\ UNCHANGED followVars /\ UNCHANGED pureVars /\ UNCHANGED cmdVars

\* links <- link
WorkerSendLink(w) ==
    /\ ~PoolPanicked
    /\ gs[w].pc = "sendlink"
    /\ Len(links) < LinksCap
    /\ links' = Append(links, [link |-> CurLink(gs[w]), by |-> w])
    /\ gs' = [gs EXCEPT ![w].i = @ + 1,
                       ![w].pc = IF gs[w].i + 1 <= Len(gs[w].page.Links) THEN "add" ELSE "done"]
    /\ UNCHANGED << variant, initUrl, pages, unexplored, pending, pendingClosed,
                    linksClosed, out, outClosed, disp, filter, seen, crawlPc, consumer,
                    sent, nReceived, allowed, emittedBy, asked, enqueuedFrom, closeCount,
                    sendOnClosed >>
    /\ UNCHANGED fetchVars /\ UNCHANGED followVars /\ UNCHANGED pureVars /\ UNCHANGED cmdVars

\* unexplored.Done(), and back to the range over pending
WorkerDone(w) ==
    /\ ~PoolPanicked
    /\ gs[w].pc = "done"
    /\ unexplored' = unexplored - 1
    /\ gs' = [gs EXCEPT ![w].pc = "recv"]
    /\ UNCHANGED << variant, initUrl, pages, pending, pendingClosed, links, linksClosed,
                    out, outClosed, disp, filter, seen, crawlPc, consumer, sent,
                    nReceived, allowed, emittedBy, asked, enqueuedFrom, closeCount,
                    sendOnClosed >>
    /\ UNCHANGED fetchVars /\ UNCHANGED followVars /\ UNCHANGED pureVars /\ UNCHANGED cmdVars

\* for link := range links, and the decision on the link: follow(link) and
\* the seen map, which this goroutine alone reads and writes
PoolFilterRecv ==
    /\ ~PoolPanicked
    /\ filter.pc = "recv"
    /\ Len(links) > 0
    /\ links' = Tail(links)
    /\ filter' = [pc |-> IF ~follow(Head(links).link) \/ sanitizeURL(Head(links).link.URL) \in seen
                        THEN "done" ELSE "send",
                  link |-> Head(links).link, by |-> Head(links).by]
    /\ seen' = IF follow(Head(links).link) THEN seen \cup {sanitizeURL(Head(links).link.URL)}
               ELSE seen
    /\ UNCHANGED << variant, initUrl, pages, unexplored, pending, pendingClosed,
                    linksClosed, out, outClosed, gs, disp, crawlPc, consumer, sent,
                    nReceived, allowed, emittedBy, asked, enqueuedFrom, closeCount,
                    sendOnClosed >>
    /\ UNCHANGED fetchVars /\ UNCHANGED followVars /\ UNCHANGED pureVars /\ UNCHANGED cmdVars

\* unexplored.Done(); continue
PoolFilterDone ==
    /\ ~PoolPanicked
    /\ filter.pc = "done"
    /\ unexplored' = unexplored - 1
    /\ filter' = [filter EXCEPT !.pc = "recv"]
    /\ UNCHANGED << variant, initUrl, pages, pending, pendingClosed, links, linksClosed,
                    out, outClosed, gs, disp, seen, crawlPc, consumer, sent, nReceived,
                    allowed, emittedBy, asked, enqueuedFrom, closeCount, sendOnClosed >>
    /\ UNCHANGED fetchVars /\ UNCHANGED followVars /\ UNCHANGED pureVars /\ UNCHANGED cmdVars

\* pending <- LinkTask(link)
PoolFilterSend ==
    /\ ~PoolPanicked
    /\ filter.pc = "send"
    /\ Len(pending) < PendingCap
    /\ pending' = Append(pending, LinkTask(filter.link))
    /\ filter' = [filter EXCEPT !.pc = "recv"]
    /\ UNCHANGED << variant, initUrl, pages, unexplored, pendingClosed, links,
                    linksClosed, out, outClosed, gs, disp, seen, crawlPc, consumer, sent,
                    nReceived, allowed, emittedBy, asked, enqueuedFrom, closeCount,
                    sendOnClosed >>
    /\ UNCHANGED fetchVars /\ UNCHANGED followVars /\ UNCHANGED pureVars /\ UNCHANGED cmdVars

\* the range over links ends when links is closed and drained
PoolFilterExit ==
    /\ ~PoolPanicked
    /\ filter.pc = "recv"
    /\ Len(links) = 0
    /\ linksClosed
    /\ filter' = [filter EXCEPT !.pc = "exit"]
    /\ UNCHANGED << variant, initUrl, pages, unexplored, pending, pendingClosed, links,
                    linksClosed, out, outClosed, gs, disp, seen, crawlPc, consumer, sent,
                    nReceived, allowed, emittedBy, asked, enqueuedFrom, closeCount,
                    sendOnClosed >>
    /\ UNCHANGED fetchVars /\ UNCHANGED followVars /\ UNCHANGED pureVars /\ UNCHANGED cmdVars

\* unexplored.Wait() returns (ticker is nil)
PoolWait ==
    /\ ~PoolPanicked
    /\ crawlPc = "wait"
    /\ unexplored = 0
    /\ crawlPc' = "closeLinks"
    /\ UNCHANGED << variant, initUrl, pages, unexplored, pending, pendingClosed, links,
                    linksClosed, out, outClosed, gs, disp, filter, seen, consumer, sent,
                    nReceived, allowed, emittedBy, asked, enqueuedFrom, closeCount,
                    sendOnClosed >>
    /\ UNCHANGED fetchVars /\ UNCHANGED followVars /\ UNCHANGED pureVars /\ UNCHANGED cmdVars

\* close(links)
PoolCloseLinks ==
    /\ ~PoolPanicked
    /\ crawlPc = "closeLinks"
    /\ linksClosed' = TRUE
    /\ crawlPc' = "closeOut"
    /\ UNCHANGED << variant, initUrl, pages, unexplored, pending, pendingClosed, links,
                    out, outClosed, gs, disp, filter, seen, consumer, sent, nReceived,
                    allowed, emittedBy, asked, enqueuedFrom, closeCount, sendOnClosed >>
    /\ UNCHANGED fetchVars /\ UNCHANGED followVars /\ UNCHANGED pureVars /\ UNCHANGED cmdVars

\* close(out)
PoolCloseOut ==
    /\ ~PoolPanicked
    /\ crawlPc = "closeOut"
    /\ outClosed' = TRUE
    /\ closeCount' = closeCount + 1
    /\ crawlPc' = "returned"
    /\ UNCHANGED << variant, initUrl, pages, unexplored, pending, pendingClosed, links,
                    linksClosed, out, gs, disp, filter, seen, consumer, sent, nReceived,
                    allowed, emittedBy, asked, enqueuedFrom, sendOnClosed >>
    /\ UNCHANGED fetchVars /\ UNCHANGED followVars /\ UNCHANGED pureVars /\ UNCHANGED cmdVars

\* main: for page := range pages
PoolConsumerRecv ==
    /\ ~PoolPanicked
    /\ consumer = "run"
    /\ Len(out) > 0
    /\ out' = Tail(out)
    /\ nReceived' = nReceived + 1
    /\ UNCHANGED << variant, initUrl, pages, unexplored, pending, pendingClosed, links,
                    linksClosed, outClosed, gs, disp, filter, seen, crawlPc, consumer,
                    sent, allowed, emittedBy, asked, enqueuedFrom, closeCount,
                    sendOnClosed >>
    /\ UNCHANGED fetchVars /\ UNCHANGED followVars /\ UNCHANGED pureVars /\ UNCHANGED cmdVars

\* main: the range ends when the stream is closed and drained
PoolConsumerExit ==
    /\ ~PoolPanicked
    /\ consumer = "run"
    /\ Len(out) = 0
    /\ outClosed
    /\ consumer' = "done"
    /\ UNCHANGED << variant, initUrl, pages, unexplored, pending, pendingClosed, links,
                    linksClosed, out, outClosed, gs, disp, filter, seen, crawlPc, sent,
                    nReceived, allowed, emittedBy, asked, enqueuedFrom, closeCount,
                    sendOnClosed >>
    /\ UNCHANGED fetchVars /\ UNCHANGED followVars /\ UNCHANGED pureVars /\ UNCHANGED cmdVars

NextPool ==
    \/ \E w \in Gids : WorkerRecv(w)
    \/ \E w \in Gids : WorkerGet(w)
    \/ \E w \in Gids : WorkerClose(w)
    \/ \E w \in Gids : WorkerEmit(w)
    \/ \E w \in Gids : WorkerAdd(w)
    \/ \E w \in Gids : WorkerSendLink(w)
    \/ \E w \in Gids : WorkerDone(w)
    \/ PoolFilterRecv
    \/ PoolFilterDone
    \/ PoolFilterSend
    \/ PoolFilterExit
    \/ PoolWait
    \/ PoolCloseLinks
    \/ PoolCloseOut
    \/ PoolConsumerRecv
    \/ PoolConsumerExit

PoolSpec == InitPool /\ [][NextPool]_vars

\* ------------------------------- concurrent calls of UnseenFollower.Follow
\* lock.w is the goroutine that holds or waits for the write side of the
\* sync.RWMutex (0 for none), lock.readers the goroutines holding the read side.
NumFollowCalls == 3

FollowCallers == 1..NumFollowCalls

LockURLs == {UrlSeenFragment, UrlUnseen, UrlUnseenVariant, UrlB}

InitLock ==
    /\ lock = [phase |-> "run", w |-> 0, readers |-> {},
               pc |-> [c \in FollowCallers |-> "idle"],
               href |-> [c \in FollowCallers |-> <<>>],
               found |-> [c \in FollowCallers |-> FALSE],
               err |-> [c \in FollowCallers |-> "none"]]
    /\ chain = << UnseenFollower >>
    /\ useen = NewUnseenFollower(ConstructedURLs)
    /\ call = NoCall
    /\ priorURLs = {}
    /\ rl = NoRl
    /\ cmd = NoCmd
    /\ CrawlIdle
    /\ FetchIdle
    /\ PureIdle

\* href := u.sanitizeURL(link.URL)
EnterFollow(c) ==
    /\ lock.phase = "run"
    /\ lock.pc[c] = "idle"
    /\ \E u \in LockURLs :
        lock' = [lock EXCEPT !.href[c] = sanitizeURL(u), !.pc[c] = "RLock"]
    /\ UNCHANGED useen
    /\ UNCHANGED << chain, call, priorURLs, rl, cmd >>
    /\ UNCHANGED crawlVars /\ UNCHANGED fetchVars /\ UNCHANGED pureVars

\* Mutation: the read lock is taken without looking at the writer.
RLockIgnoreWriter(c) ==
    /\ lock.phase = "run"
    /\ lock.pc[c] = "RLock"
    /\ lock' = [lock EXCEPT !.readers = @ \cup {c}, !.pc[c] = "read"]
    /\ UNCHANGED useen
    /\ UNCHANGED << chain, call, priorURLs, rl, cmd >>
    /\ UNCHANGED crawlVars /\ UNCHANGED fetchVars /\ UNCHANGED pureVars

\* u.lock.RLock(): blocks while a writer holds or waits for the lock.
RLock(c) ==
    /\ lock.phase = "run"
    /\ lock.pc[c] = "RLock"
    /\ lock.w = 0
    /\ lock' = [lock EXCEPT !.readers = @ \cup {c}, !.pc[c] = "read"]
    /\ UNCHANGED useen
    /\ UNCHANGED << chain, call, priorURLs, rl, cmd >>
    /\ UNCHANGED crawlVars /\ UNCHANGED fetchVars /\ UNCHANGED pureVars

\* _, seen := u.seen[href]
ReadSeen(c) ==
    /\ lock.phase = "run"
    /\ lock.pc[c] = "read"
    /\ lock' = [lock EXCEPT !.found[c] = hasSeen(useen, lock.href[c]), !.pc[c] = "RUnlock"]
    /\ UNCHANGED useen
    /\ UNCHANGED << chain, call, priorURLs, rl, cmd >>
    /\ UNCHANGED crawlVars /\ UNCHANGED fetchVars /\ UNCHANGED pureVars

\* u.lock.RUnlock(); return seen; if u.hasSeen(href) { return errors.New(...) }
RUnlock(c) ==
    /\ lock.phase = "run"
    /\ lock.pc[c] = "RUnlock"
    /\ lock' = [lock EXCEPT !.readers = @ \ {c},
                            !.pc[c] = IF lock.found[c] THEN "done" ELSE "Lock",
                            !.err[c] = IF lock.found[c] THEN "Not following seen link"
                                       ELSE "none"]
    /\ UNCHANGED useen
    /\ UNCHANGED << chain, call, priorURLs, rl, cmd >>
    /\ UNCHANGED crawlVars /\ UNCHANGED fetchVars /\ UNCHANGED pureVars

\* u.lock.Lock(), first half: the writer announces itself, which keeps new
\* readers and writers out.
LockPending(c) ==
    /\ lock.phase = "run"
    /\ lock.pc[c] = "Lock"
    /\ lock.w = 0
    /\ lock' = [lock EXCEPT !.w = c, !.pc[c] = "drain"]
    /\ UNCHANGED useen
    /\ UNCHANGED << chain, call, priorURLs, rl, cmd >>
    /\ UNCHANGED crawlVars /\ UNCHANGED fetchVars /\ UNCHANGED pureVars

\* u.lock.Lock(), second half: the readers that were in have left.
Lock(c) ==
    /\ lock.phase = "run"
    /\ lock.pc[c] = "drain"
    /\ lock.readers = {}
    /\ lock' = [lock EXCEPT !.pc[c] = "write"]
    /\ UNCHANGED useen
    /\ UNCHANGED << chain, call, priorURLs, rl, cmd >>
    /\ UNCHANGED crawlVars /\ UNCHANGED fetchVars /\ UNCHANGED pureVars

\* u.seen[href] = true
WriteSeen(c) ==
    /\ lock.phase = "run"
    /\ lock.pc[c] = "write"
    /\ useen' = recordSeen(useen, lock.href[c])
    /\ lock' = [lock EXCEPT !.pc[c] = "Unlock"]
    /\ UNCHANGED << chain, call, priorURLs, rl, cmd >>
    /\ UNCHANGED crawlVars /\ UNCHANGED fetchVars /\ UNCHANGED pureVars

\* u.lock.Unlock(); return nil
Unlock(c) ==
    /\ lock.phase = "run"
    /\ lock.pc[c] = "Unlock"
    /\ lock' = [lock EXCEPT !.w = 0, !.pc[c] = "done", !.err[c] = "nil"]
    /\ UNCHANGED useen
    /\ UNCHANGED << chain, call, priorURLs, rl, cmd >>
    /\ UNCHANGED crawlVars /\ UNCHANGED fetchVars /\ UNCHANGED pureVars

NextLock ==
    \/ \E c \in FollowCallers : EnterFollow(c)
    \/ \E c \in FollowCallers : RLock(c)
    \/ \E c \in FollowCallers : ReadSeen(c)
    \/ \E c \in FollowCallers : RUnlock(c)
    \/ \E c \in FollowCallers : LockPending(c)
    \/ \E c \in FollowCallers : Lock(c)
    \/ \E c \in FollowCallers : WriteSeen(c)
    \/ \E c \in FollowCallers : Unlock(c)

LockSpec == InitLock /\ [][NextLock]_vars

\* Every goroutine that can take a step is scheduled.
FairLockSpec == LockSpec /\ WF_vars(NextLock)

\* =================================================================
\* Properties
\* =================================================================
RECURSIVE SumOver(_, _)
SumOver(f, S) ==
    IF S = {} THEN 0
    ELSE LET x == CHOOSE y \in S : TRUE IN f[x] + SumOver(f, S \ {x})

TotalSent == SumOver(sent, AllURLs)

\* The URLs a page links to on its own site; a URL that is not served has none.
Succ(m, u) ==
    IF u \in DOMAIN m
    THEN {m[u].Links[k].URL : k \in {j \in 1..Len(m[u].Links) : ~m[u].Links[j].External}}
    ELSE {}

RECURSIVE ReachFrom(_, _)
ReachFrom(m, S) ==
    LET T == S \cup UNION {Succ(m, u) : u \in S}
    IN IF T = S THEN S ELSE ReachFrom(m, T)

\* Nodes reachable from the seed over paths whose inner nodes are all served.
Reachable == ReachFrom(pages, {initUrl})

\* Some work is queued, in progress, or waiting for its follow decision.
WorkRemains ==
    \/ Len(pending) > 0
    \/ Len(links) > 0
    \/ \E i \in Gids : gs[i].pc # "exit"
    \/ filter.pc \in {"follow", "record", "done", "send"}

\* C1: concurrent UnseenFollower.Follow calls on links with the same canonical
\* URL never both return nil: each canonical URL is allowed at most once.
C1_NoDoubleAllow == \A h \in DOMAIN allowed : allowed[h] <= 1

\* C2: under fair scheduling, with the consumer draining the output stream, the
\* crawl of the acyclic site always reaches the state in which the counter is
\* zero and unexplored.Wait() has returned.
C2_Terminates == <>(unexplored = 0 /\ crawlPc # "wait")

C2_Witness ==
    /\ unexplored = 0
    /\ crawlPc = "returned"
    /\ Len(gs) >= 3
    /\ \A i \in Gids : gs[i].pc = "exit"

\* C3: with the chain {Local, Unseen seeded with the seed}, every interleaving
\* sends exactly one Page per node reachable from the seed and no node twice.
C3_ExactlyNPages ==
    /\ \A u \in AllURLs : sent[u] <= 1
    /\ crawlPc = "returned" =>
          \A u \in AllURLs : sent[u] = (IF u \in Reachable THEN 1 ELSE 0)

C5_CounterCoversWork ==
    /\ WorkRemains => unexplored > 0
    /\ crawlPc # "wait" => (unexplored = 0 /\ ~WorkRemains)

C5_Witness ==
    /\ Len(pending) > 0
    /\ \E i \in Gids : gs[i].pc \in {"follow", "add", "send", "sendlink"}
    /\ unexplored >= 2

\* C6: nothing is sent on a channel that crawl has closed: a channel is closed
\* only with the counter at zero and no sender left.
C6_NoSendAfterClose ==
    /\ sendOnClosed = {}
    /\ (pendingClosed \/ linksClosed \/ outClosed) =>
          /\ unexplored = 0
          /\ \A i \in Gids : gs[i].pc = "exit"
          /\ filter.pc \in {"none", "recv", "exit"}

C6_Witness ==
    /\ pendingClosed \/ (linksClosed /\ outClosed)
    /\ Len(gs) >= 3

\* C7: a failed fetch yields an error Page for that task and no link from it;
\* the other tasks go on: the crawl ends with the counter at zero and every
\* node reachable over served pages sent.
C7_FailureIsolated ==
    /\ [](\A i \in Gids :
            (gs[i].task.URL \notin DOMAIN pages /\ gs[i].pc # "fetch") =>
                /\ gs[i].page = ErrorPage(gs[i].task.URL, gs[i].task.Depth, "Page not found")
                /\ i \notin asked
                /\ i \notin enqueuedFrom
                /\ gs[i].pc \in {"emit", "done", "exit"}
                /\ gs[i].pc # "emit" => i \in emittedBy)
    /\ <>[](/\ crawlPc = "returned"
            /\ unexplored = 0
            /\ \A u \in Reachable : sent[u] >= 1)

C7_Witness ==
    /\ crawlPc = "returned"
    /\ UrlA \notin DOMAIN pages
    /\ sent[UrlA] >= 1
    /\ sent[UrlB] >= 1
    /\ \E i \in Gids : gs[i].task.URL = UrlA /\ gs[i].pc = "exit" /\ ~gs[i].page.Processed

\* C9: every dequeued Task sends exactly one Page, its own, and no other Page
\* is sent: when Wait has returned, pages sent = tasks dequeued.
C9_OnePagePerTask ==
    /\ emittedBy \subseteq Gids
    /\ TotalSent = Cardinality(emittedBy)
    /\ \A u \in AllURLs :
          sent[u] = Cardinality({i \in emittedBy : gs[i].task.URL = u /\ gs[i].page.URL = u})
    /\ \A i \in Gids : (gs[i].pc \notin {"fetch", "emit"}) <=> (i \in emittedBy)
    /\ crawlPc # "wait" => TotalSent = Len(gs)

C9_Witness ==
    /\ crawlPc = "returned"
    /\ TotalSent = Len(gs)
    /\ Len(gs) >= 3
    /\ \E i \in Gids : ~gs[i].page.Processed

\* C10: a task's Page is sent before the follower is asked about any of its
\* links and before any Task made from them is enqueued.
C10_EmitBeforeLinks ==
    /\ asked \subseteq emittedBy
    /\ enqueuedFrom \subseteq emittedBy
    /\ \A k \in 1..Len(links) : links[k].by \in emittedBy
    /\ filter.by \in emittedBy \cup {0}
    /\ \A i \in Gids : (gs[i].i > 1 \/ gs[i].pc \in {"follow", "record", "add", "send", "sendlink"})
                          => i \in emittedBy

C10_Witness ==
    /\ asked # {}
    /\ enqueuedFrom # {}
    /\ \E i \in Gids : gs[i].pc = "emit"

\* C8: every Page produced by ErrorPage, HTTPFetcher.Fetch, MockFetcher.Fetch
\* on an unknown URL or RegexPageParser.Parse is either processed without
\* error, or unprocessed with its error set and without links and assets.
C8_PageStateExclusive ==
    fin.phase = "done" =>
        \/ fout.Processed /\ fout.Error = <<>>
        \/ /\ ~fout.Processed
           /\ fout.Error # <<>>
           /\ fout.Links = <<>>
           /\ fout.Assets = <<>>

C8_Witness ==
    /\ fin.phase = "done"
    /\ fin.kind = "Parse"
    /\ fin.resp.status = 200
    /\ fin.resp.body.anchors # <<>>
    /\ ~fout.Processed
    /\ fout.Error # <<>>

\* The verdict member k of the chain gives on the link of the last call.
MemberErr(k) == Follow(chain[k], call.before, call.link).err

Deniers == {k \in 1..Len(chain) : MemberErr(k) # "nil"}

\* C12: UnanimousFollower.Follow returns nil exactly when every member's Follow
\* returns nil, returns nil for the empty chain, and otherwise returns the
\* error of the first denying member in slice order.
C12_UnanimousFirstDenier ==
    call # NoCall =>
        /\ (call.err = "nil") <=> (Deniers = {})
        /\ (chain = <<>> => call.err = "nil")
        /\ (Deniers # {} =>
                call.err = MemberErr(CHOOSE k \in Deniers : \A j \in Deniers : k <= j))

\* Two members deny with different errors and the first one's error comes back.
C12_Witness ==
    /\ call # NoCall
    /\ \E k, j \in Deniers : k < j /\ MemberErr(k) # MemberErr(j) /\ call.err = MemberErr(k)

\* b is a followed by slashes only.
SlashExtension(a, b) ==
    /\ Len(a) <= Len(b)
    /\ SubSeq(b, 1, Len(a)) = a
    /\ \A k \in (Len(a) + 1)..Len(b) : b[k] = "/"

\* u and v differ only by their fragment or by trailing slashes.
SameCanonical(u, v) ==
    \/ SlashExtension(StripFragment(u), StripFragment(v))
    \/ SlashExtension(StripFragment(v), StripFragment(u))

\* C13: over sequential Follow calls on one UnseenFollower, a link is denied
\* exactly when a URL with the same canonical form was given at construction
\* or to an earlier Follow, so a new canonical form is allowed once and denied
\* afterwards; the seen set never loses an entry.
C13_UnseenSequential ==
    (chain = << UnseenFollower >> /\ call # NoCall) =>
        /\ (call.err # "nil") <=>
                (\E u \in ConstructedURLs \cup priorURLs : SameCanonical(u, call.link.URL))
        /\ call.before \subseteq useen
        /\ \A u \in ConstructedURLs \cup priorURLs \cup {call.link.URL} :
                sanitizeURL(u) \in useen

\* A variant of a URL followed earlier is denied on its own first Follow.
C13_Witness ==
    /\ chain = << UnseenFollower >>
    /\ call.link.URL = UrlUnseenVariant
    /\ call.err = "Not following seen link"
    /\ UrlUnseen \in priorURLs
    /\ UrlUnseenVariant \notin priorURLs

\* C17: ShallowFollower{MaxDepth: m}.Follow denies exactly the links with
\* Depth > m; with m = 10, depths 9 and 10 are allowed and 11 is denied.
C17_ShallowBound ==
    (call # NoCall /\ Len(chain) = 1 /\ chain[1].kind = "Shallow") =>
        ((call.err # "nil") <=> (call.link.Depth > chain[1].MaxDepth))

\* A link at depth 10 is allowed by ShallowFollower{MaxDepth: 10}.
C17_Witness ==
    /\ chain = << ShallowFollower(10) >>
    /\ call.link.Depth = 10
    /\ call.err = "nil"

\* C18: LocalFollower.Follow denies a link exactly when link.External is true.
C18_LocalExternal ==
    (call # NoCall /\ chain = << LocalFollower >>) =>
        ((call.err # "nil") <=> call.link.External)

\* An external link has been denied.
C18_Witness ==
    /\ chain = << LocalFollower >>
    /\ call.link.External
    /\ call.err = "Not internal link"

\* C14: sanitizeURL on URL strings is idempotent, and two URLs that differ
\* only by their fragment or by trailing slashes have the same image.
C14_SanitizeCanonical ==
    san # NoSan =>
        /\ san.vout = san.uout
        /\ sanitizeURL(san.vout) = san.vout
        /\ sanitizeURL(san.uout) = san.uout

\* The second URL has gained slashes and a fragment and still maps to a
\* non-empty canonical form.
C14_Witness ==
    /\ san.uout # <<>>
    /\ Index(san.v, "#") # 0
    /\ Len(StripFragment(san.v)) >= Len(StripFragment(san.u)) + 2
    /\ san.vout = san.uout

\* The expression the rule stands for when '*' is any run of characters and
\* every other character is itself.
RECURSIVE ExpectedBody(_)
ExpectedBody(r) ==
    IF r = <<>> THEN <<>>
    ELSE (IF Head(r) = "*" THEN << ".", "*" >>
          ELSE IF Head(r) \in MetaChars THEN << "\\", Head(r) >>
          ELSE << Head(r) >>) \o ExpectedBody(Tail(r))

ExpectedExpr(rule) == << "^", "/", "?" >> \o ExpectedBody(TrimLeft(rule, "/"))

\* C15: NewRobotsDisallowFollower called with N rules builds a Rules list of
\* exactly N entries, the i-th being the compiled pattern of the i-th rule;
\* "/hel.lo" gives "^/?hel\.lo" and "hello/*/world" gives "^/?hello/.*/world".
C15_RulesCompiled ==
    rob.phase \in {"built", "followed"} =>
        /\ Len(rob.Rules) = Len(rob.disallowRule)
        /\ \A i \in 1..Len(rob.disallowRule) :
            /\ i <= Len(rob.Rules)
            /\ rob.Rules[i] # <<>>
            /\ rob.Rules[i][1].src = ExpectedExpr(rob.disallowRule[i])

\* A prefix of p matches the rule r, '*' being any run of characters.
RECURSIVE GlobPrefix(_, _)
GlobPrefix(r, p) ==
    IF r = <<>> THEN TRUE
    ELSE IF Head(r) = "*" THEN GlobPrefix(Tail(r), p) \/ (p # <<>> /\ GlobPrefix(r, Tail(p)))
    ELSE p # <<>> /\ Head(p) = Head(r) /\ GlobPrefix(Tail(r), Tail(p))

\* The path, after an optional leading '/', starts with a match of the rule.
RuleDenies(rule, path) ==
    \/ GlobPrefix(TrimLeft(rule, "/"), path)
    \/ (path # <<>> /\ Head(path) = "/" /\ GlobPrefix(TrimLeft(rule, "/"), Tail(path)))

\* C16: Follow on a follower built by NewRobotsDisallowFollower never fails and
\* denies a link exactly when its path, after an optional leading '/', starts
\* with a match of some rule in which '*' is any run of characters and every
\* other character is itself.
C16_DisallowByRule ==
    rob.phase = "followed" =>
        /\ rob.err \in {"nil", "Link disallowed by rule"}
        /\ (rob.err # "nil") <=>
                (\E i \in 1..Len(rob.disallowRule) : RuleDenies(rob.disallowRule[i], rob.path))

\* C11: with LocalFollower in the chain, every task made from the links of a
\* page of the seed's site has the scheme and the host of the seed, so no page
\* of another site is fetched.
C11_SameSiteOnly ==
    fin.phase = "followed" =>
        \A k \in 1..Len(ftasks) :
            /\ ftasks[k].URL.Scheme = FetchURL.Scheme
            /\ ftasks[k].URL.Host = FetchURL.Host

\* C19: every task made from a link has the depth of the page the link was
\* found on plus 1, and with ShallowFollower{MaxDepth: m} in the chain no task
\* deeper than m is made.
C19_DepthPlusOne ==
    fin.phase = "followed" =>
        \A k \in 1..Len(ftasks) :
            /\ ftasks[k].Depth = fin.task.Depth + 1
            /\ \A n \in 1..Len(chain) :
                    chain[n].kind = "Shallow" => ftasks[k].Depth <= chain[n].MaxDepth

\* C20: the crawl of http://a/ (links to http://a/b and to http://x/ on
\* another host; b has no links) under {LocalFollower, UnseenFollower(seed)}
\* never fetches http://x/, sends each of a and b at most once, a with 2 links
\* and b with none, and has sent exactly these two pages when it returns.
C20_EndToEnd ==
    initUrl = UrlHttpA =>
        /\ \A i \in Gids : gs[i].task.URL # UrlHttpX
        /\ \A k \in 1..Len(pending) : pending[k].URL # UrlHttpX
        /\ \A u \in AllURLs : sent[u] <= (IF u \in {UrlHttpA, UrlHttpAB} THEN 1 ELSE 0)
        /\ \A k \in 1..Len(out) :
             /\ out[k].Processed
             /\ Len(out[k].Links) = (IF out[k].URL = UrlHttpA THEN 2 ELSE 0)
        /\ crawlPc = "returned" => (sent[UrlHttpA] = 1 /\ sent[UrlHttpAB] = 1)

\* The crawl of http://a/ has returned and the consumer has both pages.
C20_Witness ==
    /\ initUrl = UrlHttpA
    /\ crawlPc = "returned"
    /\ TotalSent = 2
    /\ nReceived = 2

\* The URLs that some served page lists as an asset and none as an anchor link.
AssetOnlyURLs ==
    {u \in AllURLs :
        /\ \E p \in DOMAIN pages : \E k \in 1..Len(pages[p].Assets) : pages[p].Assets[k].URL = u
        /\ \A p \in DOMAIN pages : \A k \in 1..Len(pages[p].Links) : pages[p].Links[k].URL # u}

\* C21: only entries of Page.Links reach the follower and become tasks; the
\* URL of an asset that is no anchor link anywhere is never asked about,
\* queued or fetched.
C21_AssetsNotTraversed ==
    /\ \A i \in Gids :
         /\ gs[i].task.URL \notin AssetOnlyURLs
         /\ gs[i].pc \in {"follow", "record", "add", "send", "sendlink"} =>
                (CurLink(gs[i]).Type = "anchor" /\ CurLink(gs[i]).URL \notin AssetOnlyURLs)
    /\ \A k \in 1..Len(pending) : pending[k].URL \notin AssetOnlyURLs
    /\ \A k \in 1..Len(links) : links[k].link.Type = "anchor"
    /\ filter.link.Type \in {"", "anchor"}
    /\ \A u \in AssetOnlyURLs : sent[u] = 0 /\ allowed[sanitizeURL(u)] = 0

\* The page with the image has been handled to the end and crawl has returned.
C21_Witness ==
    /\ UrlImg \in AssetOnlyURLs
    /\ crawlPc = "returned"
    /\ \E i \in Gids : gs[i].pc = "exit" /\ Len(gs[i].page.Assets) > 0

\* C23: MockFetcher.Fetch returns the page registered under exactly the task's
\* URL when there is one, otherwise an error page (not processed, error set,
\* no links) with the task's URL and depth; the registered pages stay as
\* they are.
C23_MockLookup ==
    [][CallMockFetch =>
        /\ pages' = pages
        /\ fin.task.URL \in DOMAIN pages => fout' = pages[fin.task.URL]
        /\ fin.task.URL \notin DOMAIN pages =>
              /\ fout'.URL = fin.task.URL /\ fout'.Depth = fin.task.Depth
              /\ ~fout'.Processed /\ fout'.Error # <<>>
              /\ fout'.Links = <<>> /\ fout'.Assets = <<>>]_vars

\* A URL that differs from a registered one by a trailing slash was not found.
C23_Witness ==
    /\ fin.kind = "Mock" /\ fin.phase = "done"
    /\ fin.task.URL = FetchURLSlash
    /\ DOMAIN pages = {FetchURL}
    /\ fout.Error = << "Page not found" >>

\* C24: HTTPFetcher.Fetch always returns a Page: the error page of the
\* transport error when the request failed, whatever the parser would have
\* made of the response, and otherwise exactly the parser's page.
C24_FetchAlwaysPage ==
    (fin.kind = "HTTP" /\ fin.phase # "ready") =>
        /\ DOMAIN fout = DOMAIN NoPage
        /\ fin.err # "nil" =>
              fout = [URL |-> fin.task.URL, Processed |-> FALSE, Depth |-> fin.task.Depth,
                      Links |-> <<>>, Assets |-> <<>>, Error |-> << fin.err >>]
        /\ fin.err = "nil" => fout = Parse(fin.task, fin.resp)

\* The request failed although the response at hand would have parsed.
C24_Witness ==
    /\ fin.kind = "HTTP" /\ fin.phase = "done"
    /\ fin.err # "nil"
    /\ Parse(fin.task, fin.resp).Processed
    /\ fout.Error = << fin.err >>

\* Goroutine i takes the step that counts its current link.
CountsLink(i) == gs[i].pc = "add" /\ gs'[i].pc \in {"send", "sendlink"}

\* Goroutine i, with all links of its page handled, signs its task off.
SignsOff(i) ==
    /\ gs[i].pc = "done" /\ gs'[i].pc = "exit"
    /\ gs[i].i > Len(gs[i].page.Links)

\* The filter drops the link it was handed, which the follower rejected.
DropsRejected ==
    /\ filter.pc = "done" /\ filter'.pc = "recv"
    /\ FollowDenied(seen, filter.link)

\* C27: the counter starts at 1 for the seed and changes only by +1 for a
\* link being handed on, by -1 for a counted link the follower rejected and
\* by -1 for a task whose links have all been handled; it is never negative
\* and it is 0 once Wait has returned.
C27_CounterProtocol ==
    /\ []((gs = <<>> /\ crawlPc = "wait") => unexplored = 1)
    /\ [](unexplored >= 0)
    /\ [](crawlPc # "wait" => unexplored = 0)
    /\ [][\/ unexplored' = unexplored
          \/ unexplored' = unexplored + 1 /\ \E i \in Gids : CountsLink(i)
          \/ unexplored' = unexplored - 1 /\ \E i \in Gids : SignsOff(i)
          \/ unexplored' = unexplored - 1 /\ DropsRejected]_vars

\* The links crawl has returned after the filter dropped a rejected link.
C27_Witness ==
    /\ variant = "links"
    /\ crawlPc = "returned"
    /\ unexplored = 0
    /\ 1 \in asked
    /\ Len(gs) >= 3

\* The most task goroutines one crawl of the modelled sites starts.
MaxGoroutines == 5

\* Goroutine i is blocked sending on a full channel.
BlockedSender(i) ==
    /\ i \in Gids
    /\ \/ gs[i].pc = "send" /\ ~pendingClosed /\ Len(pending) >= PendingCap
       \/ gs[i].pc = "sendlink" /\ ~linksClosed /\ Len(links) >= LinksCap
       \/ gs[i].pc = "emit" /\ ~outClosed /\ Len(out) >= OutCap

\* The filter is blocked sending an allowed link's task on the full queue.
BlockedFilter == filter.pc = "send" /\ ~pendingClosed /\ Len(pending) >= PendingCap

\* C28: in the goroutine-per-task crawl no deadlock is reachable: until crawl
\* has returned some goroutine can always take a step, and a sender blocked on
\* a full queue is always eventually served, the consumer draining out.
C28_NoDeadlock ==
    /\ [](Len(gs) <= MaxGoroutines)
    /\ [](crawlPc # "returned" => ENABLED Next)
    /\ \A i \in 1..MaxGoroutines : BlockedSender(i) ~> ~BlockedSender(i)
    /\ BlockedFilter ~> ~BlockedFilter

\* A page with three links meets queues of capacity 1: a task goroutine is
\* blocked with its second link while the queue still holds its first.
C28_Witness ==
    /\ \E i \in Gids :
          /\ BlockedSender(i)
          /\ gs[i].pc \in {"send", "sendlink"}
          /\ Len(gs[i].page.Links) > PendingCap
          /\ Len(gs[i].page.Links) > LinksCap
          /\ gs[i].i > 1

\* C22: a caller of RateLimitedFetcher.Fetch enters the wrapped fetcher only
\* in the step in which it takes one tick out of the ticker's channel, and
\* the fetches started never outnumber the ticks produced.
C22_OneFetchPerTick ==
    /\ [](rl.started <= rl.ticks)
    /\ [](rl.started + rl.C = rl.delivered /\ rl.delivered <= rl.ticks)
    /\ [](rl.started = Cardinality({c \in Callers : rl.pc[c] \in {"fetch", "done"}}))
    /\ [][\A c \in Callers :
            (rl.pc[c] # "fetch" /\ rl'.pc[c] = "fetch")
                => /\ rl.pc[c] = "wait"
                   /\ rl.C = 1 /\ rl'.C = 0
                   /\ rl'.started = rl.started + 1
                   /\ \A d \in Callers \ {c} : rl'.pc[d] = rl.pc[d]]_vars

\* Two callers waited for the same tick: one has entered the wrapped fetcher,
\* the other is still waiting on the empty channel.
C22_Witness ==
    /\ rl.phase = "run"
    /\ rl.ticks = 1
    /\ rl.started = 1
    /\ rl.C = 0
    /\ \E c, d \in Callers : rl.pc[c] = "fetch" /\ rl.pc[d] = "wait"

\* C25: when --verbose and --quiet are both set, the URL argument is missing
\* or followed by more arguments, or the URL does not parse or its scheme is
\* neither http nor https, RunE returns a configuration error and neither
\* robots.txt nor the crawl is fetched.
C25_ConfigErrorNoFetch ==
    (/\ cmd.phase \notin {"idle", "RunE"}
     /\ \/ cmd.verbose /\ cmd.quiet
        \/ Len(cmd.args) # 1
        \/ \E u \in ArgURLs :
              /\ cmd.args = << u >>
              /\ u \in {ArgFtpA, ArgNoScheme, ArgColon})
        => /\ cmd.phase = "error"
           /\ cmd.message # ""
           /\ cmd.fetches = <<>>

\* A URL with the scheme ftp was refused before anything was fetched.
C25_Witness ==
    /\ cmd.phase = "error"
    /\ cmd.args = << ArgFtpA >>
    /\ ~(cmd.verbose /\ cmd.quiet)
    /\ cmd.message = "Expected URL of the form http[s]://..."
    /\ cmd.fetches = <<>>

\* C26: once RunE is past robots.txt: with --zero it was not fetched and the
\* configured rules and delay stand; when its fetch failed the same holds
\* and the crawl starts; when it was fetched, the Disallow values read from
\* it follow the configured rules and its Crawl-Delay is the delay exactly
\* when the configured delay is below 0.
C26_RobotsHonoured ==
    cmd.phase \in {"crawl", "pages", "done", "panic"}
        => LET r == fetchRobots(cmd.resp)
           IN /\ cmd.zeroBothers
                    => /\ \A k \in 1..Len(cmd.fetches) : cmd.fetches[k] # "robots.txt"
                       /\ cmd.disallow = cmd.disallowFlag
                       /\ cmd.delay = cmd.delayFlag
              /\ (~cmd.zeroBothers /\ r.err)
                    => /\ cmd.fetches[1] = "robots.txt"
                       /\ cmd.disallow = cmd.disallowFlag
                       /\ cmd.delay = cmd.delayFlag
                       /\ cmd.phase # "panic"
                       /\ cmd.phase \in {"pages", "done"} => cmd.fetches[2] = "crawl"
              /\ (~cmd.zeroBothers /\ ~r.err)
                    => /\ cmd.fetches[1] = "robots.txt"
                       /\ cmd.disallow = cmd.disallowFlag \o readDisallowRules(r.body)
                       /\ cmd.delayFlag >= 0 => cmd.delay = cmd.delayFlag
                       /\ cmd.delayFlag < 0 => cmd.delay = readCrawlDelay(r.body)
              /\ cmd.phase \in {"pages", "done"}
                    => cmd.delayDuration = IF cmd.delay > 0 THEN cmd.delay ELSE 0

\* robots.txt was read with a rule and a Crawl-Delay of 2 seconds while the
\* delay flag had its default of -1, and the crawl runs with both.
C26_Witness ==
    /\ cmd.phase = "pages"
    /\ ~cmd.zeroBothers
    /\ cmd.resp.body = BodyRuleAndDelay /\ ~fetchRobots(cmd.resp).err
    /\ cmd.disallowFlag = << RuleForum >>
    /\ cmd.disallow = << RuleForum, << "/", "b" >> >>
    /\ cmd.delayFlag = -1000
    /\ cmd.delayDuration = 2000

\* Every worker is blocked sending a link while the filter is blocked
\* sending a task.
PoolSendDeadlock ==
    /\ filter.pc = "send" /\ Len(pending) >= PendingCap
    /\ Len(links) >= LinksCap
    /\ \A w \in Gids : gs[w].pc = "sendlink"

\* C29: the worker-pool crawl never has all its workers blocked sending links
\* while the filter is blocked sending to pending, and when it has returned
\* the output stream is closed and holds one Page for the seed and at most
\* one for any URL, as with the goroutine-per-task crawl.
C29_PoolEquivalent ==
    /\ ~PoolSendDeadlock
    /\ crawlPc = "returned"
          => /\ outClosed
             /\ sent[initUrl] = 1
             /\ \A u \in PoolURLs : sent[u] <= 1

\* C30: a worker whose request failed holds the error Page of its task, with
\* no links, sends it and goes on; the program does not end there.
C30_ErrorPageThenNext ==
    \A w \in Gids :
        gs[w].resp = "nil"
            => /\ gs[w].pc # "panic"
               /\ gs[w].page = ErrorPage(gs[w].task.URL, gs[w].task.Depth, "transport")

\* Every goroutine crawl started has ended: the loop over pending, the link
\* filter and the task goroutines.
CrawlGoroutinesEnded ==
    /\ disp = "exit"
    /\ filter.pc \in {"none", "exit"}
    /\ \A i \in Gids : gs[i].pc = "exit"

\* C31: when crawl has returned it has closed pending as well as out, and
\* every goroutine it started ends: from some moment on none of them is left
\* waiting on a channel.
C31_ClosesAndEnds ==
    /\ [](crawlPc = "returned" => (pendingClosed /\ outClosed))
    /\ <>[](crawlPc = "returned" /\ CrawlGoroutinesEnded)

\* The positions of the chain before its UnseenFollower (all of them when it
\* has none).
BeforeUnseen ==
    {k \in 1..Len(chain) : \A j \in 1..k : chain[j].kind # "Unseen"}

\* C32: a member after the first denying member is not called: when a member
\* before the UnseenFollower denies the link the seen set is left as it was,
\* and when none does and the URL is new it is recorded; so with the
\* UnseenFollower last, a URL first denied by an earlier member is allowed
\* the first time a link to it passes them.
C32_ShortCircuit ==
    call # NoCall =>
        LET href == sanitizeURL(call.link.URL)
            deniedBefore == \E k \in BeforeUnseen : MemberErr(k) # "nil"
            hasUnseen == \E k \in 1..Len(chain) : chain[k].kind = "Unseen"
        IN /\ deniedBefore => useen = call.before
           /\ ~hasUnseen => useen = call.before
           /\ (hasUnseen /\ ~deniedBefore) => useen = call.before \cup {href}
           /\ (hasUnseen /\ chain[Len(chain)].kind = "Unseen"
                 /\ ~deniedBefore /\ href \notin call.before) => call.err = "nil"
           /\ (deniedBefore /\ Deniers # {})
                 => call.err = MemberErr(CHOOSE k \in BeforeUnseen : 
                                   /\ MemberErr(k) # "nil"
                                   /\ \A j \in BeforeUnseen : MemberErr(j) # "nil" => k <= j)

\* In a chain ending with the UnseenFollower a URL that was asked about
\* before, and denied then by an earlier member, is allowed now.
C32_Witness ==
    /\ call # NoCall
    /\ Len(chain) >= 2
    /\ chain[Len(chain)].kind = "Unseen"
    /\ call.link.URL \in priorURLs
    /\ \A u \in ConstructedURLs : ~SameCanonical(u, call.link.URL)
    /\ call.err = "nil"
    /\ sanitizeURL(call.link.URL) \notin call.before

\* C33: on the site with cycles, links back to the seed and URLs that differ
\* only by fragment or trailing slash, the crawl returns and no two of the
\* Tasks it fetches have URLs with the same canonical form.
C33_CyclesFetchedOnce ==
    /\ <>(crawlPc = "returned")
    /\ [](\A i, j \in Gids :
            i # j => sanitizeURL(gs[i].task.URL) # sanitizeURL(gs[j].task.URL))

\* C34: RegexPageParser.Parse returns an error Page exactly when the status
\* is not 2xx, the Content-Type is not text/*, or reading the body fails; for
\* every other response it returns a Processed Page with the task's URL and
\* depth.
C34_ParseErrorExactly ==
    (fin.kind = "Parse" /\ fin.phase = "done") =>
        LET refused == \/ fin.resp.status \notin 200..299
                       \/ SplitFirst(ToLower(fin.resp.mime), "/") # <<"t", "e", "x", "t">>
                       \/ fin.resp.readErr # "nil"
        IN /\ refused <=> fout.Error # <<>>
           /\ ~refused => /\ fout.Processed
                          /\ fout.URL = fin.task.URL
                          /\ fout.Depth = fin.task.Depth

\* C35: in a crawl with a delay the ticker is stopped only once the counter
\* of outstanding work is zero: from Stop on the counter is zero, nothing is
\* queued and no goroutine is waiting for a tick or ever starts to; and before
\* that every goroutine waiting for a tick gets one, so the crawl returns.
C35_StopAfterZero ==
    /\ [](rl.stopped =>
            /\ unexplored = 0
            /\ pending = <<>> /\ links = <<>>
            /\ \A i \in Gids : gs[i].pc = "exit")
    /\ [][CrawlStopTicker => unexplored = 0]_vars
    /\ \A n \in 1..MaxGoroutines :
            (Len(gs) >= n /\ gs[n].pc = "tick") ~> ~(Len(gs) >= n /\ gs[n].pc = "tick")
    /\ <>(crawlPc = "returned")

\* The crawl has returned with the ticker stopped after several goroutines
\* took a tick each.
C35_Witness ==
    /\ rl.phase = "crawl"
    /\ rl.stopped
    /\ crawlPc = "returned"
    /\ Len(gs) >= 3

\* The goroutines with an access to the seen map in progress.
Reading == {c \in FollowCallers : lock.pc[c] = "read"}

Writing == {c \in FollowCallers : lock.pc[c] = "write"}

\* C36: every read of the seen map is made holding the read side of the
\* lock and every write holding the write side, so a write never overlaps
\* another access; the lock is always released and every Follow call returns.
C36_MapUnderLock ==
    /\ [](lock.phase = "run" =>
            /\ Reading \subseteq lock.readers
            /\ \A c \in Writing : lock.w = c /\ lock.readers = {}
            /\ Writing # {} => (Cardinality(Writing) = 1 /\ Reading = {}))
    /\ <>[](/\ \A c \in FollowCallers : lock.pc[c] = "done"
            /\ lock.w = 0
            /\ lock.readers = {})

\* A goroutine is writing the map while another waits for the read side and
\* a third for the write side.
C36_Witness ==
    /\ lock.phase = "run"
    /\ Writing # {}
    /\ \E c \in FollowCallers : lock.pc[c] = "RLock"
    /\ \E c \in FollowCallers : lock.pc[c] = "Lock"

\* C37: for every depth d of the 16-bit Depth field, the links and assets
\* parsed from a page fetched at depth d carry depth d + 1 with no wrap-around,
\* and every task the chain with ShallowFollower lets through is strictly
\* deeper than the page it was found on, whatever MaxDepth is.
C37_DepthNoWrap ==
    /\ (fin.kind \in {"Parse", "HTTP"} /\ fin.phase \in {"done", "followed"}) =>
            /\ \A k \in 1..Len(fout.Links) :
                    /\ fout.Links[k].Depth = fin.task.Depth + 1
                    /\ fout.Links[k].Depth > fout.Depth
            /\ \A k \in 1..Len(fout.Assets) : fout.Assets[k].Depth = fin.task.Depth + 1
    /\ (fin.kind \in {"Parse", "HTTP"} /\ fin.phase = "followed") =>
            \A k \in 1..Len(ftasks) : ftasks[k].Depth > fin.task.Depth
====
